---------------------------- MODULE Spec2Model ----------------------------
(***************************************************************************)
(* Value decoders of parquet-rs (src/encodings/decoding.rs): PlainDecoder, *)
(* DictDecoder, RleDecoder, DeltaBitPackDecoder,                           *)
(* DeltaLengthByteArrayDecoder and DeltaByteArrayDecoder, driven by        *)
(* set_data / set_dict / decode calls on byte pages.                       *)
(*                                                                         *)
(* Bytes are naturals 0..255 and a page is a sequence of bytes.  Option<X> *)
(* is a record [some, v].  Every call yields a record                      *)
(*   [d, status, k, written, err]                                          *)
(* with d the decoder after the call, status "ok" (Ok(k)), "err" (Err) or  *)
(* "panic" (a failed assertion, an out-of-range index, a division by       *)
(* zero) or "abort" (the process ended by a failed memory allocation), and *)
(* written the values stored to buffer[0..] in order.                      *)
(***************************************************************************)
EXTENDS Integers, Sequences, FiniteSets, TLC

VARIABLES kind, dec, fresh, ret, buffer, hist

vars == <<kind, dec, fresh, ret, buffer, hist>>

----------------------------------------------------------------------------
(* Bounds of the model *)

\* decode calls per behaviour
MaxCalls == 2
\* set_data calls per behaviour
MaxSets == 2
\* length of the caller's buffer, the largest max_values passed to decode
MaxDecode == 18
\* set_dict calls per behaviour
MaxDicts == 1
\* trailing bytes removed from a PLAIN page
MaxCut == 1

----------------------------------------------------------------------------
(* Generic helpers *)

Min(a, b) == IF a < b THEN a ELSE b

None == [some |-> FALSE, v |-> <<>>]
Some(x) == [some |-> TRUE, v |-> x]

RECURSIVE Pow2(_)
Pow2(n) == IF n = 0 THEN 1 ELSE 2 * Pow2(n - 1)

RECURSIVE Concat(_)
Concat(ss) == IF ss = <<>> THEN <<>> ELSE Head(ss) \o Concat(Tail(ss))

\* bytes[from .. from+len) with from counted from 0 (a Rust slice range)
Slice(bytes, from, len) == SubSeq(bytes, from + 1, from + len)

\* little-endian bytes of a natural v, n bytes long
RECURSIVE ToLE(_, _)
ToLE(v, n) == IF n = 0 THEN <<>> ELSE <<v % 256>> \o ToLE(v \div 256, n - 1)

\* the natural held by little-endian bytes
RECURSIVE FromLE(_)
FromLE(bytes) ==
  IF bytes = <<>> THEN 0 ELSE Head(bytes) + 256 * FromLE(Tail(bytes))

Complement(bytes) == [i \in 1..Len(bytes) |-> 255 - bytes[i]]

\* two's-complement little-endian bytes of an integer v, n bytes long
ToSignedLE(v, n) == IF v >= 0 THEN ToLE(v, n) ELSE Complement(ToLE(-v - 1, n))

\* the integer held by two's-complement little-endian bytes
FromSignedLE(bytes) ==
  IF bytes[Len(bytes)] >= 128 THEN -FromLE(Complement(bytes)) - 1
  ELSE FromLE(bytes)

\* the 32-bit words of a byte string whose length is a multiple of 4
RECURSIVE Words(_)
Words(bytes) ==
  IF Len(bytes) < 4 THEN <<>>
  ELSE <<FromLE(SubSeq(bytes, 1, 4))>> \o Words(SubSeq(bytes, 5, Len(bytes)))

RECURSIVE WordBytes(_)
WordBytes(ws) == IF ws = <<>> THEN <<>> ELSE ToLE(Head(ws), 4) \o WordBytes(Tail(ws))

\* results of a call
Ok(d, k, written) ==
  [d |-> d, status |-> "ok", k |-> k, written |-> written, err |-> "",
   reads |-> <<>>]
Err(d, written, e) ==
  [d |-> d, status |-> "err", k |-> 0, written |-> written, err |-> e,
   reads |-> <<>>]
Panic(d, written, e) ==
  [d |-> d, status |-> "panic", k |-> 0, written |-> written, err |-> e,
   reads |-> <<>>]
\* handle_alloc_error: the process is ended, d is what the decoder was
Abort(d, e) ==
  [d |-> d, status |-> "abort", k |-> 0, written |-> <<>>, err |-> e,
   reads |-> <<>>]

\* the results after which the caller makes no further call
Stopped == {"panic", "abort"}

NotEnoughBytes == "Not enough bytes to decode"

\* the message of the check in slice::from_raw_parts
UnalignedSlice ==
  "unsafe precondition(s) violated: slice::from_raw_parts requires the pointer to be aligned"

\* the message of an addition that overflows in a build with overflow checks
AddOverflow == "attempt to add with overflow"

----------------------------------------------------------------------------
(* util::bit_util::BitReader and read_num_bytes!, as the specification     *)
(* describes them (section 4.4): the reader is the bytes and the position  *)
(* of the next unread bit.  A read yields [r, ok, v].                       *)

MAX_VLQ_BYTE_LEN == 10

BitReaderNew(bytes) == [buffer |-> bytes, pos |-> 0]

BitAt(bytes, p) == (bytes[(p \div 8) + 1] \div Pow2(p % 8)) % 2

RECURSIVE BitsValue(_, _, _)
BitsValue(bytes, p, w) ==
  IF w = 0 THEN 0 ELSE BitAt(bytes, p) + 2 * BitsValue(bytes, p + 1, w - 1)

\* get_value(bit_width): bit_width bits, LSB first, and the cursor advances
get_value(r, num_bits) ==
  IF num_bits > 32 \/ r.pos + num_bits > 8 * Len(r.buffer)
  THEN [r |-> r, ok |-> FALSE, v |-> 0]
  ELSE [r |-> [r EXCEPT !.pos = @ + num_bits], ok |-> TRUE,
        v |-> BitsValue(r.buffer, r.pos, num_bits)]

\* get_byte_offset(): the position in bytes, rounded up when mid-byte
get_byte_offset(r) == (r.pos + 7) \div 8

\* get_aligned(n): skip to the next byte boundary, read n little-endian bytes
get_aligned(r, num_bytes) ==
  LET at == get_byte_offset(r)
  IN IF at + num_bytes > Len(r.buffer)
     THEN [r |-> r, ok |-> FALSE, v |-> 0]
     ELSE [r |-> [r EXCEPT !.pos = 8 * (at + num_bytes)], ok |-> TRUE,
           v |-> FromLE(Slice(r.buffer, at, num_bytes))]

RECURSIVE VlqLoop(_, _, _)
VlqLoop(r, shift, v) ==
  LET a == get_aligned(r, 1)
  IN IF ~a.ok THEN [r |-> r, ok |-> FALSE, v |-> 0]
     ELSE IF shift + 7 > MAX_VLQ_BYTE_LEN * 7 THEN [r |-> a.r, ok |-> FALSE, v |-> 0]
     ELSE LET w == v + (a.v % 128) * Pow2(shift)
          IN IF a.v < 128 THEN [r |-> a.r, ok |-> TRUE, v |-> w]
             ELSE VlqLoop(a.r, shift + 7, w)

\* get_vlq_int(): 7 bits per byte, the top bit of a byte says one more follows
get_vlq_int(r) == VlqLoop(r, 0, 0)

\* (n >> 1) ^ -(n & 1)
ZigZag(n) == IF n % 2 = 0 THEN n \div 2 ELSE -((n + 1) \div 2)

get_zigzag_vlq_int(r) ==
  LET a == get_vlq_int(r) IN [a EXCEPT !.v = ZigZag(a.v)]

\* read_num_bytes!(ty, size, src): asserts size <= src.len(), then reads the
\* first size bytes of src as a little-endian number of the type ty, signed
\* for i32
read_num_bytes(ty, size, src) ==
  IF ~(size <= Len(src)) THEN None
  ELSE IF ty = "i32" THEN Some(FromSignedLE(SubSeq(src, 1, size)))
  ELSE Some(FromLE(SubSeq(src, 1, size)))

----------------------------------------------------------------------------
(* Physical types and their values.  INT32 and INT64 values are integers;  *)
(* FLOAT is its 32-bit pattern; DOUBLE its 64-bit pattern as two 32-bit    *)
(* words, low word first; INT96 three 32-bit words; BYTE_ARRAY and         *)
(* FIXED_LEN_BYTE_ARRAY values are byte strings.                           *)

FixedWidthTypes == {"INT32", "INT64", "FLOAT", "DOUBLE"}

\* mem::size_of::<T::T>()
SizeOf(ty) ==
  CASE ty = "INT32" -> 4 [] ty = "INT64" -> 8 [] ty = "FLOAT" -> 4
    [] ty = "DOUBLE" -> 8 [] ty = "INT96" -> 12

\* the value of type ty that SizeOf(ty) bytes of memory hold
FromBytes(ty, bytes) ==
  CASE ty \in {"INT32", "INT64"} -> FromSignedLE(bytes)
    [] ty = "FLOAT" -> FromLE(bytes)
    [] ty \in {"DOUBLE", "INT96"} -> Words(bytes)

\* T::T::default(), ByteArray::new(), Int96::new(): an unset byte array or
\* Int96 holds no data, written <<-1>>
Unset == <<-1>>
DefaultValue(ty) ==
  CASE ty \in {"INT32", "INT64", "FLOAT"} -> 0
    [] ty = "DOUBLE" -> <<0, 0>>
    [] ty = "BOOLEAN" -> FALSE
    [] OTHER -> Unset

----------------------------------------------------------------------------
(* PLAIN decoding *)

PlainDecoder_new(type_length) ==
  [data |-> None, bit_reader |-> None, type_length |-> type_length,
   num_values |-> 0, start |-> 0]

\* default fn set_data
PlainDecoder_set_data(self, data, num_values) ==
  Ok([self EXCEPT !.num_values = num_values, !.start = 0, !.data = Some(data)],
     0, <<>>)

\* Decoder<BoolType>::set_data
PlainBool_set_data(self, data, num_values) ==
  Ok([self EXCEPT !.num_values = num_values,
                  !.bit_reader = Some(BitReaderNew(data))], 0, <<>>)

\* a decode that copies max_values values' worth into the buffer, not the
\* num_values it returns
PlainDecoder_decode_copies_max(ty, self, buflen, max_values) ==
  IF buflen < max_values THEN Panic(self, <<>>, "buffer.len() >= max_values")
  ELSE IF ~self.data.some THEN Panic(self, <<>>, "self.data.is_some()")
  ELSE
    LET data == self.data.v
        num_values == Min(max_values, self.num_values)
        bytes_left == Len(data) - self.start
        bytes_to_decode == SizeOf(ty) * num_values
    IN IF bytes_left < bytes_to_decode THEN Err(self, <<>>, NotEnoughBytes)
       ELSE Ok([self EXCEPT !.start = @ + bytes_to_decode,
                            !.num_values = @ - num_values],
               num_values,
               [i \in 1..max_values |->
                  IF i > num_values THEN DefaultValue(ty)
                  ELSE FromBytes(ty, Slice(data, self.start + (i - 1) * SizeOf(ty),
                                           SizeOf(ty)))])

\* default fn decode, for the types with no decode of their own
PlainDecoder_decode(ty, self, buflen, max_values) ==
  IF buflen < max_values THEN Panic(self, <<>>, "buffer.len() >= max_values")
  ELSE IF ~self.data.some THEN Panic(self, <<>>, "self.data.is_some()")
  ELSE
    LET data == self.data.v
        num_values == Min(max_values, self.num_values)
        bytes_left == Len(data) - self.start
        bytes_to_decode == SizeOf(ty) * num_values
    IN IF bytes_left < bytes_to_decode THEN Err(self, <<>>, NotEnoughBytes)
       ELSE Ok([self EXCEPT !.start = @ + bytes_to_decode,
                            !.num_values = @ - num_values],
               num_values,
               [i \in 1..num_values |->
                  FromBytes(ty, Slice(data, self.start + (i - 1) * SizeOf(ty),
                                      SizeOf(ty)))])

\* Decoder<Int96Type>::decode.  Each loop round makes a &[u32] of the 12
\* bytes at start with slice::from_raw_parts (198-199), which is undefined
\* when the address of the view is no multiple of 4 (aligned is false; start
\* moves by 12, so all rounds are alike): a build with debug assertions
\* stops in the first round on the check of that precondition, one without
\* reads the words where they are.
PlainInt96_decode(self, buflen, max_values, debug_assertions, aligned) ==
  IF buflen < max_values THEN Panic(self, <<>>, "buffer.len() >= max_values")
  ELSE IF ~self.data.some THEN Panic(self, <<>>, "self.data.is_some()")
  ELSE
    LET data == self.data.v
        num_values == Min(max_values, self.num_values)
        bytes_left == Len(data) - self.start
        bytes_to_decode == 12 * num_values
    IN IF bytes_left < bytes_to_decode THEN Err(self, <<>>, NotEnoughBytes)
       ELSE IF num_values > 0 /\ ~aligned /\ debug_assertions
       THEN Panic(self, <<>>, UnalignedSlice)
       ELSE Ok([self EXCEPT !.start = @ + 12 * num_values,
                            !.num_values = @ - num_values],
               num_values,
               [i \in 1..num_values |->
                  Words(Slice(data, self.start + 12 * (i - 1), 12))])

\* the loop of Decoder<BoolType>::decode from index i on
RECURSIVE PlainBoolLoop(_, _, _, _)
PlainBoolLoop(self, i, num_values, written) ==
  IF i = num_values
  THEN Ok([self EXCEPT !.num_values = @ - num_values], num_values, written)
  ELSE LET b == get_value(self.bit_reader.v, 1)
       IN IF ~b.ok THEN Err(self, written, NotEnoughBytes)
          ELSE PlainBoolLoop([self EXCEPT !.bit_reader = Some(b.r)], i + 1,
                             num_values, Append(written, b.v = 1))

\* Decoder<BoolType>::decode
PlainBool_decode(self, buflen, max_values) ==
  IF buflen < max_values THEN Panic(self, <<>>, "buffer.len() >= max_values")
  ELSE IF ~self.bit_reader.some THEN Panic(self, <<>>, "self.bit_reader.is_some()")
  ELSE PlainBoolLoop(self, 0, Min(max_values, self.num_values), <<>>)

\* the loop of Decoder<ByteArrayType>::decode from index i on
RECURSIVE PlainByteArrayLoop(_, _, _, _)
PlainByteArrayLoop(self, i, num_values, written) ==
  IF i = num_values
  THEN Ok([self EXCEPT !.num_values = @ - num_values], num_values, written)
  ELSE
    LET data == self.data.v
        len == read_num_bytes("u32", 4, SubSeq(data, self.start + 1, Len(data)))
        start == self.start + 4
    IN IF ~len.some THEN Panic(self, written, "size <= src.len()")
       ELSE IF Len(data) < start + len.v
       THEN Err([self EXCEPT !.start = start], written, NotEnoughBytes)
       ELSE PlainByteArrayLoop([self EXCEPT !.start = start + len.v], i + 1,
                               num_values,
                               Append(written, Slice(data, start, len.v)))

\* Decoder<ByteArrayType>::decode with the cursor moved past a length prefix
\* that is not there
PlainByteArray_decode_past_prefix(self, buflen, max_values) ==
  IF buflen < max_values THEN Panic(self, <<>>, "buffer.len() >= max_values")
  ELSE IF ~self.data.some THEN Panic(self, <<>>, "self.data.is_some()")
  ELSE IF Min(max_values, self.num_values) > 0
          /\ Len(self.data.v) - self.start < 4
  THEN Err([self EXCEPT !.start = @ + 4], <<>>, NotEnoughBytes)
  ELSE PlainByteArrayLoop(self, 0, Min(max_values, self.num_values), <<>>)

\* Decoder<ByteArrayType>::decode
PlainByteArray_decode(self, buflen, max_values) ==
  IF buflen < max_values THEN Panic(self, <<>>, "buffer.len() >= max_values")
  ELSE IF ~self.data.some THEN Panic(self, <<>>, "self.data.is_some()")
  ELSE PlainByteArrayLoop(self, 0, Min(max_values, self.num_values), <<>>)

\* the loop of Decoder<FixedLenByteArrayType>::decode from index i on
RECURSIVE PlainFixedLenLoop(_, _, _, _)
PlainFixedLenLoop(self, i, num_values, written) ==
  IF i = num_values
  THEN Ok([self EXCEPT !.num_values = @ - num_values], num_values, written)
  ELSE
    LET data == self.data.v
        type_length == self.type_length
    IN IF Len(data) < self.start + type_length
       THEN Err(self, written, NotEnoughBytes)
       ELSE PlainFixedLenLoop([self EXCEPT !.start = @ + type_length], i + 1,
                              num_values,
                              Append(written, Slice(data, self.start, type_length)))

\* Decoder<FixedLenByteArrayType>::decode
PlainFixedLen_decode(self, buflen, max_values) ==
  IF buflen < max_values THEN Panic(self, <<>>, "buffer.len() >= max_values")
  ELSE IF ~self.data.some THEN Panic(self, <<>>, "self.data.is_some()")
  ELSE IF ~(self.type_length > 0) THEN Panic(self, <<>>, "self.type_length > 0")
  ELSE PlainFixedLenLoop(self, 0, Min(max_values, self.num_values), <<>>)

\* Decoder<T>::decode of PlainDecoder<T> at the type ty
PlainDecode(ty, self, buflen, max_values, debug_assertions, aligned) ==
  CASE ty \in FixedWidthTypes -> PlainDecoder_decode(ty, self, buflen, max_values)
    [] ty = "INT96" ->
         PlainInt96_decode(self, buflen, max_values, debug_assertions, aligned)
    [] ty = "BOOLEAN" -> PlainBool_decode(self, buflen, max_values)
    [] ty = "BYTE_ARRAY" -> PlainByteArray_decode(self, buflen, max_values)
    [] ty = "FIXED_LEN_BYTE_ARRAY" -> PlainFixedLen_decode(self, buflen, max_values)

----------------------------------------------------------------------------
(* rle_encoding::RawRleDecoder, as the specification describes it (section *)
(* 4.5): runs of a VLQ header h, an RLE run of h >> 1 copies of one        *)
(* byte-aligned value when h is even, a bit-packed run of (h >> 1) * 8     *)
(* values when h is odd.                                                   *)

RawRleDecoder_new(bit_width) ==
  [bit_width |-> bit_width, bit_reader |-> None, rle_left |-> 0,
   bit_packed_left |-> 0, current_value |-> 0]

RawRleDecoder_set_data(self, data) ==
  [self EXCEPT !.bit_reader = Some(BitReaderNew(data)), !.rle_left = 0,
               !.bit_packed_left = 0, !.current_value = 0]

\* the next run header: [d, ok]
RawRleDecoder_reload(self) ==
  LET h == get_vlq_int(self.bit_reader.v)
  IN IF ~h.ok THEN [d |-> self, ok |-> FALSE]
     ELSE IF h.v % 2 = 1
     THEN [d |-> [self EXCEPT !.bit_reader = Some(h.r),
                              !.bit_packed_left = (h.v \div 2) * 8],
           ok |-> TRUE]
     ELSE LET a == get_aligned(h.r, (self.bit_width + 7) \div 8)
          IN IF ~a.ok THEN [d |-> [self EXCEPT !.bit_reader = Some(h.r)],
                            ok |-> FALSE]
             ELSE [d |-> [self EXCEPT !.bit_reader = Some(a.r),
                                      !.rle_left = h.v \div 2,
                                      !.current_value = a.v],
                   ok |-> TRUE]

\* one decoded number as the output value: itself, or the dictionary's entry
RawRleOut(dict, v) == IF dict.some THEN dict.v[v + 1] ELSE v
RawRleInRange(dict, v) == ~dict.some \/ v < Len(dict.v)

\* the loop of decode / decode_with_dict: one value per step
RECURSIVE RawRleLoop(_, _, _, _, _)
RawRleLoop(self, dict, values_read, max_values, written) ==
  IF ~(values_read < max_values) THEN Ok(self, values_read, written)
  ELSE IF self.rle_left > 0
  THEN IF ~RawRleInRange(dict, self.current_value)
       THEN Err(self, written, "dictionary index out of range")
       ELSE RawRleLoop([self EXCEPT !.rle_left = @ - 1], dict, values_read + 1,
                       max_values,
                       Append(written, RawRleOut(dict, self.current_value)))
  ELSE IF self.bit_packed_left > 0
  THEN LET g == get_value(self.bit_reader.v, self.bit_width)
       IN IF ~g.ok THEN Err(self, written, NotEnoughBytes)
          ELSE IF ~RawRleInRange(dict, g.v)
          THEN Err([self EXCEPT !.bit_reader = Some(g.r)], written,
                   "dictionary index out of range")
          ELSE RawRleLoop([self EXCEPT !.bit_reader = Some(g.r),
                                       !.bit_packed_left = @ - 1],
                          dict, values_read + 1, max_values,
                          Append(written, RawRleOut(dict, g.v)))
  ELSE LET l == RawRleDecoder_reload(self)
       IN IF ~l.ok THEN Ok(l.d, values_read, written)
          ELSE RawRleLoop(l.d, dict, values_read, max_values, written)

RawRleDecoder_decode(self, buflen, max_values) ==
  IF buflen < max_values THEN Panic(self, <<>>, "buffer.len() >= max_values")
  ELSE IF ~self.bit_reader.some THEN Panic(self, <<>>, "self.bit_reader.is_some()")
  ELSE RawRleLoop(self, None, 0, max_values, <<>>)

RawRleDecoder_decode_with_dict(self, dict, buflen, max_values) ==
  IF buflen < max_values THEN Panic(self, <<>>, "buffer.len() >= max_values")
  ELSE IF ~self.bit_reader.some THEN Panic(self, <<>>, "self.bit_reader.is_some()")
  ELSE RawRleLoop(self, Some(dict), 0, max_values, <<>>)

----------------------------------------------------------------------------
(* PLAIN_DICTIONARY decoding *)

DictDecoder_new ==
  [dictionary |-> <<>>, has_dictionary |-> FALSE, rle_decoder |-> None,
   num_values |-> 0]

\* whether x, a sum or product of i64, is an i64 (or isize):
\* -2^63 <= x < 2^63
FitsI64(x) == ((x \div 2097152) \div 2097152) \div 2097152 \in {-1, 0}

CapacityOverflow == "capacity overflow"

AllocationFailed == "memory allocation failed"

\* whether Vec::resize(n, _) of a Vec whose elements take size bytes panics:
\* the n elements need more than isize::MAX bytes (n a usize, 2^63 and above
\* written as negative numbers)
ResizeOverflows(n, size) == n < 0 \/ ~FitsI64(n * size)

\* whether Vec::resize(n, _) ends the process: the Vec has to grow and the
\* allocator refuses the memory (alloc_fails, which the code does not
\* decide: a count such as 2^40 is refused on any machine, a small one only
\* where memory is exhausted)
ResizeAborts(v, n, alloc_fails) == alloc_fails /\ n > Len(v)

\* Vec::resize(n, value), where it neither panics nor aborts
Resize(v, n, value) ==
  [i \in 1..n |-> IF i <= Len(v) THEN v[i] ELSE value]

\* mem::size_of::<T::T>() of an element of Vec<T::T>, on a 64-bit target.
\* Int96 and ByteArray are structs declared outside this file: an Int96
\* holds the Vec<u32> that set_data is given (195-201: pointer, capacity and
\* length, 24 bytes), a ByteArray the BytePtr that data.range returns (248,
\* 270: the buffer, a start and a length, taken as 24 bytes).
ElementSize(ty) ==
  CASE ty \in FixedWidthTypes -> SizeOf(ty)
    [] ty = "BOOLEAN" -> 1
    [] ty \in {"INT96", "BYTE_ARRAY", "FIXED_LEN_BYTE_ARRAY"} -> 24

\* what a decode stored in a buffer makes of it
Store(buf, written) ==
  [i \in 1..Len(buf) |-> IF i <= Len(written) THEN written[i] ELSE buf[i]]

\* set_dict(decoder), decoder a PlainDecoder<T> over the dictionary page.
\* The resize at 304 panics, or ends the process, before anything is
\* assigned.  debug_assertions and aligned: the build and the address of the
\* dictionary page, see PlainInt96_decode.
DictDecoder_set_dict(self, ty, decoder, debug_assertions, aligned, alloc_fails) ==
  LET num_values == decoder.num_values
      dictionary == Resize(self.dictionary, num_values, DefaultValue(ty))
      r == PlainDecode(ty, decoder, Len(dictionary), num_values,
                       debug_assertions, aligned)
      filled == [self EXCEPT !.dictionary = Store(dictionary, r.written)]
  IN IF ResizeOverflows(num_values, ElementSize(ty))
     THEN Panic(self, <<>>, CapacityOverflow)
     ELSE IF ResizeAborts(self.dictionary, num_values, alloc_fails)
     THEN Abort(self, AllocationFailed)
     ELSE IF r.status = "ok"
     THEN Ok([filled EXCEPT !.has_dictionary = TRUE], 0, <<>>)
     ELSE [r EXCEPT !.d = filled, !.written = <<>>]

DictDecoder_set_data(self, data, num_values) ==
  IF Len(data) = 0 THEN Panic(self, <<>>, "index out of bounds")
  ELSE LET bit_width == data[1]
           rle_decoder == RawRleDecoder_set_data(RawRleDecoder_new(bit_width),
                                                 Tail(data))
       IN Ok([self EXCEPT !.num_values = num_values,
                          !.rle_decoder = Some(rle_decoder)], 0, <<>>)

\* a decode that does not assert has_dictionary
DictDecoder_decode_no_dict_check(self, buflen, max_values) ==
  IF buflen < max_values THEN Panic(self, <<>>, "buffer.len() >= max_values")
  ELSE IF ~self.rle_decoder.some THEN Panic(self, <<>>, "self.rle_decoder.is_some()")
  ELSE LET num_values == Min(max_values, self.num_values)
           r == RawRleDecoder_decode_with_dict(self.rle_decoder.v, self.dictionary,
                                               buflen, num_values)
       IN [r EXCEPT !.d = [self EXCEPT !.rle_decoder = Some(r.d)]]

DictDecoder_decode(self, buflen, max_values) ==
  IF buflen < max_values THEN Panic(self, <<>>, "buffer.len() >= max_values")
  ELSE IF ~self.rle_decoder.some THEN Panic(self, <<>>, "self.rle_decoder.is_some()")
  ELSE IF ~self.has_dictionary THEN Panic(self, <<>>, "Must call set_dict() first!")
  ELSE LET num_values == Min(max_values, self.num_values)
           r == RawRleDecoder_decode_with_dict(self.rle_decoder.v, self.dictionary,
                                               buflen, num_values)
       IN [r EXCEPT !.d = [self EXCEPT !.rle_decoder = Some(r.d)]]

----------------------------------------------------------------------------
(* RLE decoding.  num_values and total_bytes are usize: a value of 2^63 or *)
(* more is written as the negative integer congruent to it modulo 2^64.    *)

RleDecoder_new(bit_width) ==
  [bit_width |-> bit_width, decoder |-> RawRleDecoder_new(bit_width),
   num_values |-> 0, total_bytes |-> 0]

\* overflow_checks: whether the build panics on arithmetic overflow (a debug
\* build) or wraps (a release build).
\* The prefix is read as an i32 and cast to usize (393), which extends its
\* sign: a negative prefix v is the usize 2^64 + v, written v here.  The
\* addition at 397 passes 2^64 for v in -4..-1.
RleDecoder_set_data(self, data, num_values, overflow_checks) ==
  LET i32_size == 4
      num_bytes == read_num_bytes("i32", i32_size, data)
      set == [self EXCEPT
                !.decoder = RawRleDecoder_set_data(@, SubSeq(data, i32_size + 1, Len(data))),
                !.num_values = num_values]
  IN IF ~num_bytes.some THEN Panic(self, <<>>, "size <= src.len()")
     ELSE IF overflow_checks /\ num_bytes.v < 0 /\ i32_size + num_bytes.v >= 0
     THEN Panic(set, <<>>, AddOverflow)
     ELSE Ok([set EXCEPT !.total_bytes = i32_size + num_bytes.v], 0, <<>>)

RleDecoder_decode(self, buflen, max_values, overflow_checks) ==
  LET r == RawRleDecoder_decode(self.decoder, buflen, max_values)
      advanced == [self EXCEPT !.decoder = r.d]
  IN IF r.status # "ok" THEN [r EXCEPT !.d = advanced]
     ELSE IF overflow_checks /\ self.num_values >= 0 /\ self.num_values < r.k
     THEN Panic(advanced, r.written, "attempt to subtract with overflow")
     ELSE Ok([advanced EXCEPT !.num_values = @ - r.k], r.k, r.written)

----------------------------------------------------------------------------
(* DELTA_BINARY_PACKED decoding.  A decode also reports, per value it      *)
(* produced, what it read for it (field reads): a record                   *)
(*   [first, min_delta, delta, bit_width, listed, new_block]               *)
(* with bit_width the width the delta was read at, listed the width        *)
(* delta_bit_widths holds for the current mini-block and new_block whether *)
(* init_block ran for this value.                                          *)

DeltaBitPackDecoder_new ==
  [bit_reader |-> None, num_values |-> 0, num_mini_blocks |-> 0,
   values_per_mini_block |-> 0, values_current_mini_block |-> 0,
   first_value |-> 0, first_value_read |-> FALSE, min_delta |-> 0,
   mini_block_idx |-> 0, delta_bit_width |-> 0, delta_bit_widths |-> <<>>,
   current_value |-> 0]

\* get_offset(): [some, v], none when the assertion fails
DeltaBitPackDecoder_get_offset(self) ==
  IF ~self.bit_reader.some THEN None
  ELSE Some(get_byte_offset(self.bit_reader.v))

\* the loop of init_block that reads one width per mini-block: [r, ok, v]
RECURSIVE ReadWidths(_, _, _)
ReadWidths(r, n, widths) ==
  IF n <= 0 THEN [r |-> r, ok |-> TRUE, v |-> widths]
  ELSE LET w == get_aligned(r, 1)
       IN IF ~w.ok THEN [r |-> w.r, ok |-> FALSE, v |-> widths]
          ELSE ReadWidths(w.r, n - 1, Append(widths, w.v))

\* init_block() once min_delta was read (m): the widths, then the cursors
InitBlockWidths(self, m, w) ==
  IF ~w.ok
  THEN [d |-> [self EXCEPT !.bit_reader = Some(w.r), !.min_delta = m.v],
        ok |-> FALSE]
  ELSE [d |-> [self EXCEPT !.bit_reader = Some(w.r),
                           !.min_delta = m.v,
                           !.delta_bit_widths = w.v,
                           !.mini_block_idx = 0,
                           !.values_current_mini_block = self.values_per_mini_block,
                           !.current_value = self.first_value],
        ok |-> TRUE]

InitBlockMinDelta(self, m) ==
  IF ~m.ok THEN [d |-> [self EXCEPT !.bit_reader = Some(m.r)], ok |-> FALSE]
  ELSE InitBlockWidths(self, m, ReadWidths(m.r, self.num_mini_blocks, <<>>))

\* init_block(): [d, ok]
DeltaBitPackDecoder_init_block(self) ==
  InitBlockMinDelta(self, get_zigzag_vlq_int(self.bit_reader.v))

\* n VLQ integers read one after the other: [r, ok, v], v those read
RECURSIVE ReadVlqs(_, _, _)
ReadVlqs(r, n, read) ==
  IF n = 0 THEN [r |-> r, ok |-> TRUE, v |-> read]
  ELSE LET a == get_vlq_int(r)
       IN IF ~a.ok THEN [r |-> a.r, ok |-> FALSE, v |-> read]
          ELSE ReadVlqs(a.r, n - 1, Append(read, a.v))

\* a set_data that leaves first_value_read as the page before left it
DeltaSetDataHeader_keep_read(self, h, f) ==
  LET s3 == [self EXCEPT !.num_mini_blocks = h[2], !.num_values = h[3],
                         !.first_value = f.v]
      s4 == [s3 EXCEPT !.values_per_mini_block = h[1] \div h[2]]
  IN IF ~f.ok
     THEN Err([self EXCEPT !.num_mini_blocks = h[2], !.num_values = h[3]], <<>>,
              NotEnoughBytes)
     ELSE IF h[2] = 0 THEN Panic(s3, <<>>, "attempt to divide by zero")
     ELSE IF s4.values_per_mini_block % 8 # 0
     THEN Panic(s4, <<>>, "self.values_per_mini_block % 8 == 0")
     ELSE Ok([s4 EXCEPT !.bit_reader = Some(f.r)], 0, <<>>)

\* set_data once block_size, num_mini_blocks and the value count were read
\* (h) and first_value (f)
DeltaSetDataHeader(self, h, f) ==
  LET s3 == [self EXCEPT !.num_mini_blocks = h[2], !.num_values = h[3],
                         !.first_value = f.v, !.first_value_read = FALSE]
      s4 == [s3 EXCEPT !.values_per_mini_block = h[1] \div h[2]]
  IN IF ~f.ok
     THEN Err([self EXCEPT !.num_mini_blocks = h[2], !.num_values = h[3]], <<>>,
              NotEnoughBytes)
     ELSE IF h[2] = 0 THEN Panic(s3, <<>>, "attempt to divide by zero")
     ELSE IF s4.values_per_mini_block % 8 # 0
     THEN Panic(s4, <<>>, "self.values_per_mini_block % 8 == 0")
     ELSE Ok([s4 EXCEPT !.bit_reader = Some(f.r)], 0, <<>>)

DeltaSetDataVlqs(self, h) ==
  IF h.ok THEN DeltaSetDataHeader(self, h.v, get_zigzag_vlq_int(h.r))
  ELSE IF Len(h.v) = 2
  THEN Err([self EXCEPT !.num_mini_blocks = h.v[2]], <<>>, NotEnoughBytes)
  ELSE Err(self, <<>>, NotEnoughBytes)

\* Decoder<Int64Type>::set_data; the num_values argument is not used
DeltaBitPackDecoder_set_data(self, data, num_values) ==
  DeltaSetDataVlqs(self, ReadVlqs(BitReaderNew(data), 3, <<>>))

DeltaRead(first, self, delta, new_block) ==
  [first |-> first, min_delta |-> self.min_delta, delta |-> delta,
   bit_width |-> self.delta_bit_width,
   listed |-> IF self.mini_block_idx < Len(self.delta_bit_widths)
              THEN self.delta_bit_widths[self.mini_block_idx + 1] ELSE -1,
   new_block |-> new_block]

\* the start of a loop round of decode, when the mini-block is used up: the
\* next mini-block of the block, or the next block: [d, ok, new_block]
DeltaNextBlock(b) == [d |-> b.d, ok |-> b.ok, new_block |-> TRUE]

DeltaNextMiniBlock(self) ==
  IF self.values_current_mini_block # 0
  THEN [d |-> self, ok |-> TRUE, new_block |-> FALSE]
  ELSE IF self.mini_block_idx + 1 < Len(self.delta_bit_widths)
  THEN [d |-> [self EXCEPT
                 !.mini_block_idx = @ + 1,
                 !.delta_bit_width = self.delta_bit_widths[self.mini_block_idx + 2],
                 !.values_current_mini_block = self.values_per_mini_block],
        ok |-> TRUE, new_block |-> FALSE]
  ELSE DeltaNextBlock(
         DeltaBitPackDecoder_init_block([self EXCEPT !.mini_block_idx = @ + 1]))

\* the i64 that a wrapping addition leaves for the sum x of two i64
WrapI64(x) ==
  IF FitsI64(x) THEN x ELSE IF x > 0 THEN x - Pow2(64) ELSE x + Pow2(64)

DeltaStepResult(d, ok, panic, v, read) ==
  [d |-> d, ok |-> ok, panic |-> panic, v |-> v, read |-> read]

\* the two i64 additions (548, 549) once the delta was read, self the decoder
\* with the advanced bit reader: with overflow checks the one that overflows
\* panics, without them it wraps
DeltaAdd(self, delta, with_min, read, overflow_checks) ==
  IF overflow_checks /\ ~FitsI64(with_min)
  THEN DeltaStepResult(self, FALSE, TRUE, 0, <<>>)
  ELSE IF overflow_checks /\ ~FitsI64(WrapI64(with_min) + delta)
  THEN DeltaStepResult([self EXCEPT !.current_value = with_min], FALSE, TRUE, 0, <<>>)
  ELSE DeltaStepResult(
         [self EXCEPT !.current_value = WrapI64(WrapI64(with_min) + delta),
                      !.values_current_mini_block = @ - 1],
         TRUE, FALSE, WrapI64(WrapI64(with_min) + delta), read)

\* one delta read (g) in the mini-block n.d: the decoder and the value
DeltaStep(n, g, overflow_checks) ==
  IF ~g.ok THEN DeltaStepResult(n.d, FALSE, FALSE, 0, <<>>)
  ELSE DeltaAdd([n.d EXCEPT !.bit_reader = Some(g.r)], g.v,
                n.d.current_value + n.d.min_delta,
                DeltaRead(FALSE, n.d, g.v, n.new_block), overflow_checks)

DeltaRound(n, overflow_checks) ==
  IF ~n.ok THEN DeltaStepResult(n.d, FALSE, FALSE, 0, <<>>)
  ELSE DeltaStep(n, get_value(n.d.bit_reader.v, n.d.delta_bit_width),
                 overflow_checks)

WithReads(r, reads) == [r EXCEPT !.reads = reads]

\* the loop of Decoder<Int64Type>::decode from index i on
RECURSIVE DeltaBitPackLoop(_, _, _, _, _, _)
RECURSIVE DeltaBitPackNext(_, _, _, _, _, _)
DeltaBitPackLoop(self, i, num_values, written, reads, overflow_checks) ==
  IF i = num_values
  THEN WithReads(Ok([self EXCEPT !.num_values = @ - num_values], num_values,
                    written), reads)
  ELSE IF ~self.first_value_read
  THEN DeltaBitPackLoop([self EXCEPT !.first_value_read = TRUE], i + 1, num_values,
                        Append(written, self.first_value),
                        Append(reads, DeltaRead(TRUE, self, 0, FALSE)),
                        overflow_checks)
  ELSE DeltaBitPackNext(DeltaRound(DeltaNextMiniBlock(self), overflow_checks), i,
                        num_values, written, reads, overflow_checks)

DeltaBitPackNext(step, i, num_values, written, reads, overflow_checks) ==
  IF step.panic
  THEN WithReads(Panic(step.d, written, AddOverflow), reads)
  ELSE IF ~step.ok
  THEN WithReads(Err(step.d, written, NotEnoughBytes), reads)
  ELSE DeltaBitPackLoop(step.d, i + 1, num_values, Append(written, step.v),
                        Append(reads, step.read), overflow_checks)

\* a decode whose loop body runs once before max_values is looked at
DeltaBitPackDecoder_decode_once(self, buflen, max_values, overflow_checks) ==
  IF buflen < max_values THEN Panic(self, <<>>, "buffer.len() >= max_values")
  ELSE IF ~self.bit_reader.some THEN Panic(self, <<>>, "self.bit_reader.is_some()")
  ELSE DeltaBitPackLoop(self, 0,
                        IF max_values = 0 THEN 1 ELSE Min(max_values, self.num_values),
                        <<>>, <<>>, overflow_checks)

\* Decoder<Int64Type>::decode
DeltaBitPackDecoder_decode(self, buflen, max_values, overflow_checks) ==
  IF buflen < max_values THEN Panic(self, <<>>, "buffer.len() >= max_values")
  ELSE IF ~self.bit_reader.some THEN Panic(self, <<>>, "self.bit_reader.is_some()")
  ELSE DeltaBitPackLoop(self, 0, Min(max_values, self.num_values), <<>>, <<>>,
                        overflow_checks)

----------------------------------------------------------------------------
(* DELTA_LENGTH_BYTE_ARRAY decoding *)

\* BytePtr::range(start, len): the sub-view, none when it leaves the view; a
\* negative i64 length cast to usize is larger than any view
BytePtr_range(data, start, len) ==
  IF len < 0 \/ start + len > Len(data) THEN None
  ELSE Some(Slice(data, start, len))

DeltaLengthByteArrayDecoder_new ==
  [lengths |-> <<>>, current_idx |-> 0, data |-> None, offset |-> 0,
   num_values |-> 0]

\* The first lines of both byte-array set_data: a new DeltaBitPackDecoder is
\* given the page and, if that succeeds, drained into a Vec resized to its
\* values_left().  [status, err, vec, offset]: vec is the Vec afterwards,
\* offset the drained decoder's get_offset().  The Vec holds i64: the resize
\* (618, 707) panics, the Vec as it was, when the count of the page header
\* times 8 passes isize::MAX, and ends the process when the allocator
\* refuses the memory.
DrainResult(status, err, vec, offset) ==
  [status |-> status, err |-> err, vec |-> vec, offset |-> offset]

DrainDecoded(r, vec) ==
  DrainResult(r.status, r.err, Store(vec, r.written),
              IF r.status = "ok" THEN DeltaBitPackDecoder_get_offset(r.d).v ELSE 0)

DrainSet(s, into, overflow_checks, alloc_fails) ==
  IF s.status # "ok" THEN DrainResult(s.status, s.err, into, 0)
  ELSE IF ResizeOverflows(s.d.num_values, 8)
  THEN DrainResult("panic", CapacityOverflow, into, 0)
  ELSE IF ResizeAborts(into, s.d.num_values, alloc_fails)
  THEN DrainResult("abort", AllocationFailed, into, 0)
  ELSE DrainDecoded(DeltaBitPackDecoder_decode(s.d, s.d.num_values, s.d.num_values,
                                               overflow_checks),
                    Resize(into, s.d.num_values, 0))

DrainDeltaBitPack(data, num_values, into, overflow_checks, alloc_fails) ==
  DrainSet(DeltaBitPackDecoder_set_data(DeltaBitPackDecoder_new, data, num_values),
           into, overflow_checks, alloc_fails)

Failed(d, status, err) ==
  [d |-> d, status |-> status, k |-> 0, written |-> <<>>, err |-> err,
   reads |-> <<>>]

\* the rest of set_data, r the drained len_decoder
\* a set_data that leaves offset where the page before left it
DeltaLengthSetData_keep_offset(self, data, r) ==
  IF r.status # "ok" THEN Failed([self EXCEPT !.lengths = r.vec], r.status, r.err)
  ELSE Ok([self EXCEPT !.lengths = r.vec,
                       !.data = Some(SubSeq(data, r.offset + 1, Len(data))),
                       !.current_idx = 0,
                       !.num_values = Len(r.vec)],
          0, <<>>)

DeltaLengthSetData(self, data, r) ==
  IF r.status # "ok" THEN Failed([self EXCEPT !.lengths = r.vec], r.status, r.err)
  ELSE Ok([self EXCEPT !.lengths = r.vec,
                       !.data = Some(SubSeq(data, r.offset + 1, Len(data))),
                       !.offset = 0, !.current_idx = 0,
                       !.num_values = Len(r.vec)],
          0, <<>>)

\* Decoder<ByteArrayType>::set_data
DeltaLengthByteArrayDecoder_set_data(self, data, num_values, overflow_checks, alloc_fails) ==
  DeltaLengthSetData(self, data,
                     DrainDeltaBitPack(data, num_values, self.lengths,
                                       overflow_checks, alloc_fails))

\* the loop of Decoder<ByteArrayType>::decode from index i on
RECURSIVE DeltaLengthLoop(_, _, _, _)
DeltaLengthLoop(self, i, num_values, written) ==
  IF i = num_values
  THEN Ok([self EXCEPT !.num_values = @ - num_values], num_values, written)
  ELSE IF ~(self.current_idx < Len(self.lengths))
  THEN Panic(self, written, "index out of bounds")
  ELSE LET len == self.lengths[self.current_idx + 1]
           v == BytePtr_range(self.data.v, self.offset, len)
       IN IF ~v.some THEN Panic(self, written, "range out of bounds")
          ELSE DeltaLengthLoop([self EXCEPT !.offset = @ + len,
                                            !.current_idx = @ + 1],
                               i + 1, num_values, Append(written, v.v))

\* Decoder<ByteArrayType>::decode
DeltaLengthByteArrayDecoder_decode(self, buflen, max_values) ==
  IF ~self.data.some THEN Panic(self, <<>>, "self.data.is_some()")
  ELSE IF buflen < max_values THEN Panic(self, <<>>, "buffer.len() >= max_values")
  ELSE DeltaLengthLoop(self, 0, Min(self.num_values, max_values), <<>>)

----------------------------------------------------------------------------
(* DELTA_BYTE_ARRAY decoding *)

DeltaByteArrayDecoder_new ==
  [prefix_lengths |-> <<>>, current_idx |-> 0, suffix_decoder |-> None,
   previous_value |-> None, num_values |-> 0]

\* the end of set_data, sd the suffix decoder's set_data
DeltaByteArraySetSuffix(filled, sd) ==
  IF sd.status # "ok" THEN Failed(filled, sd.status, sd.err)
  ELSE Ok([filled EXCEPT !.suffix_decoder = Some(sd.d),
                         !.num_values = Len(filled.prefix_lengths)], 0, <<>>)

\* the rest of set_data, r the drained prefix_len_decoder
DeltaByteArraySetData(self, data, num_values, r, overflow_checks, alloc_fails) ==
  IF r.status # "ok"
  THEN Failed([self EXCEPT !.prefix_lengths = r.vec], r.status, r.err)
  ELSE DeltaByteArraySetSuffix(
         [self EXCEPT !.prefix_lengths = r.vec],
         DeltaLengthByteArrayDecoder_set_data(
           DeltaLengthByteArrayDecoder_new, SubSeq(data, r.offset + 1, Len(data)),
           num_values, overflow_checks, alloc_fails))

\* Decoder<ByteArrayType>::set_data
DeltaByteArrayDecoder_set_data(self, data, num_values, overflow_checks, alloc_fails) ==
  DeltaByteArraySetData(self, data, num_values,
                        DrainDeltaBitPack(data, num_values, self.prefix_lengths,
                                          overflow_checks, alloc_fails),
                        overflow_checks, alloc_fails)

\* the prefix taken for prefix_len: all of the previous value
DeltaByteArrayPrefix(self, prefix_len) ==
  IF prefix_len # 0 THEN self.previous_value.v ELSE <<>>

\* the loop of Decoder<ByteArrayType>::decode from index i on
RECURSIVE DeltaByteArrayLoop(_, _, _, _)
RECURSIVE DeltaByteArrayNext(_, _, _, _, _, _)
DeltaByteArrayLoop(self, i, num_values, written) ==
  IF i = num_values
  THEN Ok([self EXCEPT !.num_values = @ - num_values], num_values, written)
  ELSE IF ~(self.current_idx < Len(self.prefix_lengths))
  THEN Panic(self, written, "index out of bounds")
  ELSE IF self.prefix_lengths[self.current_idx + 1] # 0 /\ ~self.previous_value.some
  THEN Panic(self, written, "self.previous_value.is_some()")
  ELSE DeltaByteArrayNext(
         self, DeltaByteArrayPrefix(self, self.prefix_lengths[self.current_idx + 1]),
         DeltaLengthByteArrayDecoder_decode(self.suffix_decoder.v, 1, 1),
         i, num_values, written)

\* the rest of a loop round, suffix the suffix decoder's decode of one value
DeltaByteArrayNext(self, prefix, suffix, i, num_values, written) ==
  IF suffix.status # "ok"
  THEN [suffix EXCEPT !.d = [self EXCEPT !.suffix_decoder = Some(suffix.d)],
                      !.written = written]
  ELSE IF suffix.k = 0
  THEN Panic([self EXCEPT !.suffix_decoder = Some(suffix.d)], written,
             "self.data.is_some()")
  ELSE DeltaByteArrayLoop(
         [self EXCEPT !.suffix_decoder = Some(suffix.d),
                      !.previous_value = Some(prefix \o suffix.written[1])],
         i + 1, num_values, Append(written, prefix \o suffix.written[1]))

\* Decoder<ByteArrayType>::decode
DeltaByteArrayDecoder_decode(self, buflen, max_values) ==
  IF buflen < max_values THEN Panic(self, <<>>, "buffer.len() >= max_values")
  ELSE IF ~self.suffix_decoder.some
  THEN Panic(self, <<>>, "self.suffix_decoder.is_some()")
  ELSE DeltaByteArrayLoop(self, 0, Min(self.num_values, max_values), <<>>)

----------------------------------------------------------------------------
(* Encoders: the pages the decoders are run on.  PLAIN pages are written   *)
(* as the tests' ToByteArray writes them; RLE and DELTA_BINARY_PACKED      *)
(* streams as the specification lays them out (sections 4.5 and 4.7).      *)

\* ToByteArray<T>::to_byte_array, default: the values' bytes in memory
ToBytes(ty, v) ==
  CASE ty = "INT32" -> ToSignedLE(v, 4)
    [] ty = "INT64" -> ToSignedLE(v, 8)
    [] ty = "FLOAT" -> ToLE(v, 4)
    [] ty \in {"DOUBLE", "INT96"} -> WordBytes(v)

\* set_array_bit over a fresh byte per 8 values: byte j holds values 8j..8j+7
BoolByte(data, j) ==
  LET bit(b) == IF 8 * j + b + 1 <= Len(data) /\ data[8 * j + b + 1] THEN Pow2(b) ELSE 0
  IN bit(0) + bit(1) + bit(2) + bit(3) + bit(4) + bit(5) + bit(6) + bit(7)

\* usize_to_bytes
usize_to_bytes(v) == ToLE(v, 4)

\* ToByteArray::to_byte_array for each type
to_byte_array(ty, data) ==
  CASE ty = "BOOLEAN" ->
         [j \in 1..((Len(data) + 7) \div 8) |-> BoolByte(data, j - 1)]
    [] ty = "BYTE_ARRAY" ->
         Concat([i \in 1..Len(data) |-> usize_to_bytes(Len(data[i])) \o data[i]])
    [] ty = "FIXED_LEN_BYTE_ARRAY" -> Concat(data)
    [] OTHER -> Concat([i \in 1..Len(data) |-> ToBytes(ty, data[i])])

RECURSIVE EncodeVlq(_)
EncodeVlq(n) ==
  IF n < 128 THEN <<n>> ELSE <<128 + (n % 128)>> \o EncodeVlq(n \div 128)

\* (n << 1) ^ (n >> 63)
EncodeZigZag(v) == IF v >= 0 THEN 2 * v ELSE -2 * v - 1

RECURSIVE BitsNeeded(_)
BitsNeeded(v) == IF v = 0 THEN 0 ELSE 1 + BitsNeeded(v \div 2)

\* values packed at w bits each, LSB first; 8 * k values fill k * w bytes
PackBits(values, w) ==
  LET bit(k) == (values[(k \div w) + 1] \div Pow2(k % w)) % 2
      byte(j) == bit(8*j) + 2 * bit(8*j + 1) + 4 * bit(8*j + 2) + 8 * bit(8*j + 3)
                 + 16 * bit(8*j + 4) + 32 * bit(8*j + 5) + 64 * bit(8*j + 6)
                 + 128 * bit(8*j + 7)
  IN [j \in 1..((Len(values) * w) \div 8) |-> byte(j - 1)]

\* an RLE run and a bit-packed run of the hybrid encoding
RleRun(count, value, bit_width) ==
  EncodeVlq(2 * count) \o ToLE(value, (bit_width + 7) \div 8)
BitPackedRun(values, bit_width) ==
  EncodeVlq(2 * (Len(values) \div 8) + 1) \o PackBits(values, bit_width)

SeqMin(s) == CHOOSE m \in {s[i] : i \in 1..Len(s)} : \A i \in 1..Len(s) : m <= s[i]
SeqMax(s) == CHOOSE m \in {s[i] : i \in 1..Len(s)} : \A i \in 1..Len(s) : m >= s[i]

\* one block of DELTA_BINARY_PACKED over the deltas it holds: min_delta, one
\* width per mini-block, then each mini-block that holds a delta, padded with
\* zeros to values_per_mini_block
DeltaBlock(deltas, num_mini_blocks, vpm) ==
  LET min_delta == SeqMin(deltas)
      mini(j) == [i \in 1..vpm |->
                    IF j * vpm + i <= Len(deltas)
                    THEN deltas[j * vpm + i] - min_delta ELSE 0]
      used(j) == j * vpm < Len(deltas)
      width(j) == IF used(j) THEN BitsNeeded(SeqMax(mini(j))) ELSE 0
  IN EncodeVlq(EncodeZigZag(min_delta))
     \o [j \in 1..num_mini_blocks |-> width(j - 1)]
     \o Concat([j \in 1..num_mini_blocks |->
                  IF used(j - 1) THEN PackBits(mini(j - 1), width(j - 1)) ELSE <<>>])

RECURSIVE DeltaBlocks(_, _, _)
DeltaBlocks(deltas, block_size, num_mini_blocks) ==
  IF deltas = <<>> THEN <<>>
  ELSE LET n == Min(block_size, Len(deltas))
       IN DeltaBlock(SubSeq(deltas, 1, n), num_mini_blocks,
                     block_size \div num_mini_blocks)
          \o DeltaBlocks(SubSeq(deltas, n + 1, Len(deltas)), block_size,
                         num_mini_blocks)

\* the DELTA_BINARY_PACKED stream of the integers xs
DeltaBinaryPacked(block_size, num_mini_blocks, xs) ==
  EncodeVlq(block_size) \o EncodeVlq(num_mini_blocks) \o EncodeVlq(Len(xs))
  \o EncodeVlq(EncodeZigZag(IF xs = <<>> THEN 0 ELSE xs[1]))
  \o DeltaBlocks([i \in 1..(Len(xs) - 1) |-> xs[i + 1] - xs[i]], block_size,
                 num_mini_blocks)

\* the DELTA_LENGTH_BYTE_ARRAY page of the byte strings xs
DeltaLengthByteArray(block_size, num_mini_blocks, xs) ==
  DeltaBinaryPacked(block_size, num_mini_blocks, [i \in 1..Len(xs) |-> Len(xs[i])])
  \o Concat(xs)

\* the longest common prefix of two byte strings
RECURSIVE CommonPrefix(_, _)
CommonPrefix(a, b) ==
  IF a = <<>> \/ b = <<>> \/ Head(a) # Head(b) THEN 0
  ELSE 1 + CommonPrefix(Tail(a), Tail(b))

PrefixLengths(xs) ==
  [i \in 1..Len(xs) |-> IF i = 1 THEN 0 ELSE CommonPrefix(xs[i - 1], xs[i])]

\* the DELTA_BYTE_ARRAY page of the byte strings xs
DeltaByteArray(block_size, num_mini_blocks, xs) ==
  DeltaBinaryPacked(block_size, num_mini_blocks, PrefixLengths(xs))
  \o DeltaLengthByteArray(block_size, num_mini_blocks,
       [i \in 1..Len(xs) |-> SubSeq(xs[i], PrefixLengths(xs)[i] + 1, Len(xs[i]))])

----------------------------------------------------------------------------
(* The decoders under test and their pages.  A decoder instance is         *)
(* [decoder, ty, type_length, bit_width]: the struct, the physical type T, *)
(* and the arguments of new().  A page is [bytes, n, xs, cut, bs, nmb]:    *)
(* the bytes and count given to set_data, the values the bytes were        *)
(* encoded from, the number of trailing bytes removed, and for the delta   *)
(* encodings the block size and the number of mini-blocks.                 *)

Kind(decoder, ty, type_length, bit_width) ==
  [decoder |-> decoder, ty |-> ty, type_length |-> type_length,
   bit_width |-> bit_width]

PlainTypes == FixedWidthTypes \cup {"INT96", "BOOLEAN", "BYTE_ARRAY"}

\* T is the type the decoder's set_data and decode are specialized for;
\* PlainDecoder and DictDecoder are defined for every type
Specialized(k) ==
  CASE k.decoder = "Rle" -> k.ty = "INT32"
    [] k.decoder = "DeltaBitPack" -> k.ty = "INT64"
    [] k.decoder \in {"DeltaLength", "DeltaByteArray"} -> k.ty = "BYTE_ARRAY"
    [] OTHER -> TRUE

\* decoders at a type they are not specialized for
UnspecializedKinds ==
  {Kind("Rle", "INT64", -1, 2),
   Kind("DeltaBitPack", "INT32", -1, 0),
   Kind("DeltaLength", "FIXED_LEN_BYTE_ARRAY", 2, 0),
   Kind("DeltaByteArray", "INT32", -1, 0)}

\* basic::Encoding and ValueType
Encodings ==
  {"PLAIN", "PLAIN_DICTIONARY", "RLE", "BIT_PACKED", "DELTA_BINARY_PACKED",
   "DELTA_LENGTH_BYTE_ARRAY", "DELTA_BYTE_ARRAY", "RLE_DICTIONARY"}

ValueTypes == {"DEF_LEVEL", "REP_LEVEL", "VALUE"}

\* bit_util::log2(x), x >= 1: the least n with 2^n >= x
log2(x) == IF x = 1 THEN 0 ELSE BitsNeeded(x - 1)

\* a column descriptor: physical type, type_length, the two maximum levels
Descr(ty, type_length, max_def_level, max_rep_level) ==
  [ty |-> ty, type_length |-> type_length, max_def_level |-> max_def_level,
   max_rep_level |-> max_rep_level]

\* the results of get_decoder: the decoder, or the error
GeneralErr(msg) == [status |-> "err", variant |-> "General", msg |-> msg]
NYIErr(msg) == [status |-> "err", variant |-> "NYI", msg |-> msg]
OkDecoder(k) == [status |-> "ok", k |-> k]

\* an RLE arm that takes every value type as a level role
get_decoder_rle_any(descr, value_type) ==
  IF value_type = "REP_LEVEL"
  THEN OkDecoder(Kind("Rle", descr.ty, -1, log2(descr.max_rep_level)))
  ELSE OkDecoder(Kind("Rle", descr.ty, -1, log2(descr.max_def_level)))

\* the arm of get_decoder for Encoding::RLE
get_decoder_rle(descr, value_type) ==
  CASE value_type = "DEF_LEVEL" ->
         OkDecoder(Kind("Rle", descr.ty, -1, log2(descr.max_def_level)))
    [] value_type = "REP_LEVEL" ->
         OkDecoder(Kind("Rle", descr.ty, -1, log2(descr.max_rep_level)))
    [] OTHER -> GeneralErr("Unexpected value type " \o value_type)

\* get_decoder::<T>(descr, encoding, value_type, mem_pool), T the type of descr
get_decoder(descr, encoding, value_type) ==
  CASE encoding = "PLAIN" -> OkDecoder(Kind("Plain", descr.ty, descr.type_length, 0))
    [] encoding = "RLE" -> get_decoder_rle(descr, value_type)
    [] encoding = "DELTA_BINARY_PACKED" ->
         OkDecoder(Kind("DeltaBitPack", descr.ty, -1, 0))
    [] encoding = "DELTA_LENGTH_BYTE_ARRAY" ->
         OkDecoder(Kind("DeltaLength", descr.ty, -1, 0))
    [] encoding = "DELTA_BYTE_ARRAY" ->
         OkDecoder(Kind("DeltaByteArray", descr.ty, -1, 0))
    [] encoding \in {"RLE_DICTIONARY", "PLAIN_DICTIONARY"} ->
         GeneralErr("Cannot initialize this encoding through this function")
    [] OTHER -> NYIErr("Encoding " \o encoding \o " is not supported.")

\* the calls of get_decoder: <<descr, encoding, value_type>>, the levels such
\* that both level roles give the bit width of the RLE pages
Descrs ==
  {Descr(ty, IF ty = "FIXED_LEN_BYTE_ARRAY" THEN 2 ELSE -1, 3, 4) :
     ty \in PlainTypes \cup {"FIXED_LEN_BYTE_ARRAY"}}

GetDecoderCalls == Descrs \X Encodings \X ValueTypes

\* the decoders get_decoder returns
FactoryKinds ==
  {get_decoder(c[1], c[2], c[3]).k :
     c \in {x \in GetDecoderCalls : get_decoder(x[1], x[2], x[3]).status = "ok"}}

Kinds ==
  {Kind("Plain", ty, -1, 0) : ty \in PlainTypes}
  \cup {Kind("Plain", "FIXED_LEN_BYTE_ARRAY", 2, 0),
        Kind("Dict", "INT32", -1, 0),
        Kind("Rle", "INT32", -1, 2),
        Kind("DeltaBitPack", "INT64", -1, 0),
        Kind("DeltaLength", "BYTE_ARRAY", -1, 0),
        Kind("DeltaByteArray", "BYTE_ARRAY", -1, 0)}
  \cup UnspecializedKinds \cup FactoryKinds

Page(bytes, n, xs, cut, bs, nmb) ==
  [bytes |-> bytes, n |-> n, xs |-> xs, cut |-> cut, bs |-> bs, nmb |-> nmb]

NoPage == Page(<<>>, 0, <<>>, 0, 0, 0)

\* a byte string of the given length
Fill(len, base) == [i \in 1..len |-> base + i]

PlainValues(k) ==
  CASE k.ty = "INT32" -> {<<42, 18, 52>>, <<-1, 7>>}
    [] k.ty = "INT64" -> {<<42, -3>>}
    [] k.ty = "FLOAT" -> {<<1078523331, 0>>}
    [] k.ty = "DOUBLE" -> {<< <<1374389535, 1074339512>>, <<0, 0>> >>}
    [] k.ty = "INT96" -> {<< <<11, 22, 33>>, <<44, 55, 66>> >>}
    [] k.ty = "BOOLEAN" ->
         {<<FALSE, TRUE, FALSE, FALSE, TRUE, FALSE, TRUE, TRUE, FALSE, TRUE>>,
          <<TRUE, FALSE, TRUE>>}
    [] k.ty = "BYTE_ARRAY" -> {<< <<104, 105>>, <<>> >>, << <<0, 0, 0, 0, 9>> >>}
    [] k.ty = "FIXED_LEN_BYTE_ARRAY" ->
         {<<Fill(k.type_length, 0), Fill(k.type_length, 4)>>}

PlainPages(k) ==
  {LET bytes == to_byte_array(k.ty, xs)
   IN Page(SubSeq(bytes, 1, Len(bytes) - cut), Len(xs), xs, cut, 0, 0) :
     xs \in {x \in PlainValues(k) : Len(x) <= MaxDecode}, cut \in 0..MaxCut}

\* the dictionary page given to set_dict, a PLAIN page
Dictionary == <<100, 200, 300>>
DictionaryPages(k) ==
  IF k.decoder # "Dict" THEN {}
  ELSE {Page(to_byte_array(k.ty, Dictionary), Len(Dictionary), Dictionary, 0, 0, 0)}

\* pages of dictionary indices: the bit width, then runs; a bit-packed run
\* holds 8 values also when the page declares fewer
DictPages ==
  {Page(<<2>> \o BitPackedRun(<<0, 1, 2, 0, 1, 2, 0, 1>>, 2), 8,
        <<0, 1, 2, 0, 1, 2, 0, 1>>, 0, 0, 0),
   Page(<<2>> \o BitPackedRun(<<0, 1, 2, 0, 1, 2, 0, 1>>, 2), 5,
        <<0, 1, 2, 0, 1>>, 0, 0, 0),
   Page(<<2>> \o RleRun(4, 1, 2), 4, <<1, 1, 1, 1>>, 0, 0, 0)}

LengthPrefixed(stream) == ToLE(Len(stream), 4) \o stream

\* a run under a prefix whose top bit is set: FF FF FF FF, the i32 -1, and
\* 00 00 00 80, the i32 -2^31
NegativePrefixPages(k) ==
  {Page(prefix \o RleRun(3, 1, k.bit_width), 3, <<1, 1, 1>>, 0, 0, 0) :
     prefix \in {<<255, 255, 255, 255>>, <<0, 0, 0, 128>>}}

RlePages(k) ==
  {Page(LengthPrefixed(BitPackedRun(<<0, 1, 2, 3, 3, 2, 1, 0>>, k.bit_width)), 8,
        <<0, 1, 2, 3, 3, 2, 1, 0>>, 0, 0, 0),
   Page(LengthPrefixed(BitPackedRun(<<0, 1, 2, 3, 3, 2, 1, 0>>, k.bit_width)), 5,
        <<0, 1, 2, 3, 3>>, 0, 0, 0),
   Page(LengthPrefixed(RleRun(3, 1, k.bit_width) \o RleRun(1, 2, k.bit_width)), 4,
        <<1, 1, 1, 2>>, 0, 0, 0),
   \* the same runs under a length prefix that counts the first of them only
   Page(LengthPrefixed(RleRun(3, 1, k.bit_width)) \o RleRun(1, 2, k.bit_width), 4,
        <<1, 1, 1, 2>>, 0, 0, 0)}
  \cup NegativePrefixPages(k)

DeltaBitPackValues ==
  {<<8, 1, <<7>> >>,
   <<8, 1, <<1, 2, 4>> >>,
   <<8, 1, <<0, 1, 2, 3, 4, 5, 6, 7, 8, 9>> >>,
   <<16, 2, <<0, 1, 2, 3, 4, 5, 6, 7, 8, 11>> >>,
   <<16, 2, <<0, 1, 2, 3, 4, 5, 6, 7, 8, 9, 11, 12, 13, 14, 15, 16, 17, 18>> >>}

\* the header of a DELTA_BINARY_PACKED stream
DeltaHeader(block_size, num_mini_blocks, total_value_count, first_value) ==
  EncodeVlq(block_size) \o EncodeVlq(num_mini_blocks)
  \o EncodeVlq(total_value_count) \o EncodeVlq(EncodeZigZag(first_value))

\* headers the format forbids, <<block_size, num_mini_blocks>>: no
\* mini-block, a block size that is no multiple of the number of mini-blocks,
\* mini-blocks whose size is no multiple of 8
BadHeaders == {<<8, 0>>, <<17, 2>>, <<8, 2>>}

\* pages of one value: the header alone, for the forbidden headers and for a
\* good one, and a good header with bytes of no meaning after it
OneValuePages ==
  {Page(DeltaHeader(h[1], h[2], 1, 7), 1, <<7>>, 0, h[1], h[2]) :
     h \in BadHeaders \cup {<<8, 1>>}}
  \cup {Page(DeltaHeader(8, 1, 1, -3) \o <<255, 255>>, 1, <<-3>>, 0, 8, 1)}

\* a page given to set_data with a num_values that is not the count of its
\* header
MiscountedPages ==
  {Page(DeltaBinaryPacked(8, 1, <<1, 2, 4>>), n, <<1, 2, 4>>, 0, 8, 1) :
     n \in {7}}

DeltaBitPackPages ==
  {Page(DeltaBinaryPacked(v[1], v[2], v[3]), Len(v[3]), v[3], 0, v[1], v[2]) :
     v \in {x \in DeltaBitPackValues : Len(x[3]) <= MaxDecode}}
  \cup OneValuePages \cup MiscountedPages

DeltaLengthValues ==
  {<<8, 1, << <<104, 105>>, <<97, 98, 99>> >> >>,
   <<8, 1, << <<1>>, <<2, 3>>, <<4, 5, 6, 7>> >> >>,
   <<16, 2, << <<>>, <<>>, <<>>, <<>>, <<>>, <<>>, <<>>, <<>>, <<>>, <<5, 6>> >> >>}

\* pages that are no DELTA_LENGTH_BYTE_ARRAY pages: one without the last byte
\* of its data region, one whose only length is -1, one whose stream of
\* lengths ends after the header
ShortDeltaLengthPages ==
  {LET xs == << <<7, 8, 9>> >>
       bytes == DeltaLengthByteArray(8, 1, xs)
   IN Page(SubSeq(bytes, 1, Len(bytes) - 1), 1, xs, 1, 8, 1),
   Page(DeltaHeader(8, 1, 1, -1) \o <<9, 9>>, 1, <<>>, 0, 8, 1),
   Page(DeltaHeader(8, 1, 3, 1), 3, <<>>, 0, 8, 1)}

DeltaLengthPages ==
  {Page(DeltaLengthByteArray(v[1], v[2], v[3]), Len(v[3]), v[3], 0, v[1], v[2]) :
     v \in {x \in DeltaLengthValues : Len(x[3]) <= MaxDecode}}
  \cup ShortDeltaLengthPages

DeltaByteArrayValues ==
  {<<8, 1, << <<1, 2>>, <<1, 2, 3>> >> >>,
   <<8, 1, << <<1>>, <<2>>, <<3>> >> >>}

DeltaByteArrayPages ==
  {Page(DeltaByteArray(v[1], v[2], v[3]), Len(v[3]), v[3], 0, v[1], v[2]) :
     v \in DeltaByteArrayValues}

\* the pages given to a decoder at a type it is not specialized for, whose
\* set_data looks at neither argument
UnspecializedPages ==
  {Page(LengthPrefixed(DeltaHeader(8, 1, 1, 7)), 1, <<7>>, 0, 8, 1),
   Page(<<>>, 0, <<>>, 0, 0, 0)}

Pages(k) ==
  CASE ~Specialized(k) -> UnspecializedPages
    [] k.decoder = "Plain" -> PlainPages(k)
    [] k.decoder = "Dict" -> DictPages
    [] k.decoder = "Rle" /\ Specialized(k) -> RlePages(k)
    [] k.decoder = "DeltaBitPack" /\ Specialized(k) -> DeltaBitPackPages
    [] k.decoder = "DeltaLength" /\ Specialized(k) -> DeltaLengthPages
    [] k.decoder = "DeltaByteArray" /\ Specialized(k) -> DeltaByteArrayPages

----------------------------------------------------------------------------
(* The Decoder trait: dispatch on the decoder instance *)

New(k) ==
  CASE k.decoder = "Plain" -> PlainDecoder_new(k.type_length)
    [] k.decoder = "Dict" -> DictDecoder_new
    [] k.decoder = "Rle" -> RleDecoder_new(k.bit_width)
    [] k.decoder = "DeltaBitPack" -> DeltaBitPackDecoder_new
    [] k.decoder = "DeltaLength" -> DeltaLengthByteArrayDecoder_new
    [] k.decoder = "DeltaByteArray" -> DeltaByteArrayDecoder_new

\* the default fn set_data and decode of the four decoders that are
\* specialized for one type: the error, whatever the arguments
OnlySupport(decoder, ty) == decoder \o " only support " \o ty

\* a set_data that fails and still stores the count it was given
default_set_data_counts(k, self, data, num_values) ==
  Err([self EXCEPT !.num_values = num_values], <<>>, "only support")

default_set_data(k, self, data, num_values) ==
  CASE k.decoder = "Rle" -> Err(self, <<>>, OnlySupport("RleDecoder", "Int32Type"))
    [] k.decoder = "DeltaBitPack" ->
         Err(self, <<>>, OnlySupport("DeltaBitPackDecoder", "Int64Type"))
    [] k.decoder \in {"DeltaLength", "DeltaByteArray"} ->
         Err(self, <<>>, OnlySupport("DeltaLengthByteArrayDecoder", "ByteArrayType"))

default_decode(k, self, buflen, max_values) ==
  CASE k.decoder = "Rle" -> Err(self, <<>>, OnlySupport("RleDecoder", "Int32Type"))
    [] k.decoder = "DeltaBitPack" ->
         Err(self, <<>>, OnlySupport("DeltaBitPackDecoder", "Int64Type"))
    [] k.decoder = "DeltaLength" ->
         Err(self, <<>>, OnlySupport("DeltaLengthByteArrayDecoder", "ByteArrayType"))
    [] k.decoder = "DeltaByteArray" ->
         Err(self, <<>>, OnlySupport("DeltaByteArrayDecoder", "ByteArrayType"))

\* overflow_checks: the build, see RleDecoder_set_data; alloc_fails: the
\* allocator, see ResizeAborts
set_data(k, self, data, num_values, overflow_checks, alloc_fails) ==
  CASE ~Specialized(k) -> default_set_data(k, self, data, num_values)
    [] k.decoder = "Plain" /\ k.ty = "BOOLEAN" -> PlainBool_set_data(self, data, num_values)
    [] k.decoder = "Plain" /\ k.ty # "BOOLEAN" -> PlainDecoder_set_data(self, data, num_values)
    [] k.decoder = "Dict" -> DictDecoder_set_data(self, data, num_values)
    [] k.decoder = "Rle" /\ Specialized(k) ->
         RleDecoder_set_data(self, data, num_values, overflow_checks)
    [] k.decoder = "DeltaBitPack" /\ Specialized(k) ->
         DeltaBitPackDecoder_set_data(self, data, num_values)
    [] k.decoder = "DeltaLength" /\ Specialized(k) ->
         DeltaLengthByteArrayDecoder_set_data(self, data, num_values,
                                              overflow_checks, alloc_fails)
    [] k.decoder = "DeltaByteArray" /\ Specialized(k) ->
         DeltaByteArrayDecoder_set_data(self, data, num_values, overflow_checks,
                                        alloc_fails)

\* overflow_checks: a debug build, which has overflow checks and debug
\* assertions, or a release build, which has neither; aligned: whether the
\* address of the page set_data was given is a multiple of 4
decode(k, self, buflen, max_values, overflow_checks, aligned) ==
  CASE ~Specialized(k) -> default_decode(k, self, buflen, max_values)
    [] k.decoder = "Plain" ->
         PlainDecode(k.ty, self, buflen, max_values, overflow_checks, aligned)
    [] k.decoder = "Dict" -> DictDecoder_decode(self, buflen, max_values)
    [] k.decoder = "Rle" /\ Specialized(k) ->
         RleDecoder_decode(self, buflen, max_values, overflow_checks)
    [] k.decoder = "DeltaBitPack" /\ Specialized(k) ->
         DeltaBitPackDecoder_decode(self, buflen, max_values, overflow_checks)
    [] k.decoder = "DeltaLength" /\ Specialized(k) ->
         DeltaLengthByteArrayDecoder_decode(self, buflen, max_values)
    [] k.decoder = "DeltaByteArray" /\ Specialized(k) ->
         DeltaByteArrayDecoder_decode(self, buflen, max_values)

values_left(self) == self.num_values

\* total_bytes(&self): [status, v, err]
total_bytes(k, self) ==
  CASE k.decoder = "Rle" /\ Specialized(k) ->
         [status |-> "ok", v |-> self.total_bytes, err |-> ""]
    [] k.decoder = "Rle" /\ ~Specialized(k) ->
         [status |-> "err", v |-> 0, err |-> OnlySupport("RleDecoder", "Int32Type")]
    [] k.decoder = "Plain" ->
         [status |-> "err", v |-> 0,
          err |-> "PlainDecoder does not support total_bytes()"]
    [] k.decoder = "Dict" ->
         [status |-> "err", v |-> 0,
          err |-> "DictDecoder does not support total_bytes()"]
    [] k.decoder = "DeltaBitPack" ->
         [status |-> "err", v |-> 0,
          err |-> "DeltaBitPackDecoder does not support total_bytes()"]
    [] k.decoder = "DeltaLength" ->
         [status |-> "err", v |-> 0,
          err |-> "DeltaLengthByteArrayDecoder does not support total_bytes()"]
    [] k.decoder = "DeltaByteArray" ->
         [status |-> "err", v |-> 0,
          err |-> "DeltaByteArrayDecoder does not support total_bytes()"]

\* encoding(&self)
encoding(k, self) ==
  CASE k.decoder = "Plain" -> "PLAIN"
    [] k.decoder = "Dict" -> "PLAIN_DICTIONARY"
    [] k.decoder = "Rle" -> "RLE"
    [] k.decoder = "DeltaBitPack" -> "DELTA_BINARY_PACKED"
    [] k.decoder = "DeltaLength" -> "DELTA_LENGTH_BYTE_ARRAY"
    [] k.decoder = "DeltaByteArray" -> "DELTA_BYTE_ARRAY"

----------------------------------------------------------------------------
(* The state machine: one decoder instance (kind, dec) driven by a caller. *)
(* ret is the result of the last call, buffer the caller's buffer.  fresh  *)
(* is a second decoder of the same kind, constructed anew at every         *)
(* set_data and given the same calls since.  hist records the calls:       *)
(* page and dict the pages last given to set_data and set_dict, count the  *)
(* values_left() right after the last set_data, total and produced the     *)
(* number and the sequence of values returned by Ok decodes since, reads   *)
(* what DeltaBitPackDecoder read for each of them, asked the max_values of *)
(* the decodes since, errs the number of them that did not return Ok, left *)
(* the values_left() before the last call, set what the last set_data      *)
(* returned ("none" before the first), aligned whether the address of the  *)
(* page last given to set_data is a multiple of 4.                         *)

Ret(op, r, max) ==
  [op |-> op, status |-> r.status, k |-> r.k, written |-> r.written,
   err |-> r.err, reads |-> r.reads, max |-> max]

\* the PlainDecoder, loaded with the dictionary page, that set_dict is given
DictionaryDecoder(k, p) ==
  PlainDecoder_set_data(PlainDecoder_new(k.type_length), p.bytes, p.n).d

\* a decoder constructed anew (with the dictionary, if one was set) and then
\* given set_data(p.bytes, p.n): the result of that set_data
FreshDecoder(k, dict, p, overflow_checks, alloc_fails) ==
  LET d0 == New(k)
      d1 == IF k.decoder = "Dict" /\ dict.some
            THEN DictDecoder_set_dict(d0, k.ty, DictionaryDecoder(k, dict.v),
                                      overflow_checks, TRUE, FALSE).d
            ELSE d0
  IN set_data(k, d1, p.bytes, p.n, overflow_checks, alloc_fails)

Init ==
  /\ kind \in Kinds
  /\ dec = New(kind)
  /\ fresh = Ok(New(kind), 0, <<>>)
  /\ ret = Ret("new", Ok(New(kind), 0, <<>>), 0)
  /\ buffer = [i \in 1..MaxDecode |-> DefaultValue(kind.ty)]
  /\ hist = [page |-> NoPage, dict |-> None, sets |-> 0, calls |-> 0, dicts |-> 0,
             count |-> 0, total |-> 0, produced |-> <<>>, reads |-> <<>>,
             asked |-> <<>>, errs |-> 0, left |-> 0, set |-> "none",
             aligned |-> TRUE]

\* what a set_data that returned r leaves
SetDataDone(p, aligned, r) ==
  /\ dec' = r.d
  /\ ret' = Ret("set_data", r, p.n)
  /\ hist' = [hist EXCEPT !.page = p, !.sets = @ + 1,
                          !.count = values_left(r.d), !.total = 0,
                          !.produced = <<>>, !.reads = <<>>, !.asked = <<>>,
                          !.errs = 0, !.left = values_left(dec),
                          !.set = r.status, !.aligned = aligned]

\* the alignments of the pages given to a decoder of kind k: the one decoder
\* that looks at the address is PlainDecoder<Int96Type>
Alignments(k) ==
  IF k.decoder = "Plain" /\ k.ty = "INT96" THEN BOOLEAN ELSE {TRUE}

\* the builds that a set_data of kind k tells apart: the set_data of
\* RleDecoder and of the two byte-array delta decoders do arithmetic that
\* can overflow, the others do none
Builds(k) ==
  IF k.decoder \in {"Rle", "DeltaLength", "DeltaByteArray"} THEN BOOLEAN ELSE {TRUE}

\* the allocators that a set_data of kind k tells apart: the two byte-array
\* delta decoders resize a Vec
Allocators(k) ==
  IF k.decoder \in {"DeltaLength", "DeltaByteArray"} THEN BOOLEAN ELSE {FALSE}

SetData(p, aligned, overflow_checks, alloc_fails) ==
  /\ ret.status \notin Stopped
  /\ hist.sets < MaxSets
  /\ SetDataDone(p, aligned,
                 set_data(kind, dec, p.bytes, p.n, overflow_checks, alloc_fails))
  /\ fresh' = FreshDecoder(kind, hist.dict, p, overflow_checks, alloc_fails)
  /\ UNCHANGED <<kind, buffer>>

\* what a set_dict that returned r leaves
SetDictDone(p, r) ==
  /\ dec' = r.d
  /\ ret' = Ret("set_dict", r, 0)
  /\ hist' = [hist EXCEPT !.dict = Some(p), !.dicts = @ + 1]

\* the dictionary pages are at aligned addresses
SetDict(p, overflow_checks, alloc_fails) ==
  /\ ret.status \notin Stopped
  /\ kind.decoder = "Dict"
  /\ hist.dicts < MaxDicts
  /\ SetDictDone(p, DictDecoder_set_dict(dec, kind.ty, DictionaryDecoder(kind, p),
                                         overflow_checks, TRUE, alloc_fails))
  /\ fresh' = IF fresh.status \in Stopped THEN fresh
              ELSE DictDecoder_set_dict(fresh.d, kind.ty, DictionaryDecoder(kind, p),
                                        overflow_checks, TRUE, alloc_fails)
  /\ UNCHANGED kind
  /\ UNCHANGED buffer

\* what a decode that returned r leaves
DecodeDone(max_values, r) ==
  /\ dec' = r.d
  /\ ret' = Ret("decode", r, max_values)
  /\ buffer' = Store(buffer, r.written)
  /\ hist' = [hist EXCEPT
                !.calls = @ + 1,
                !.total = IF r.status = "ok" THEN @ + r.k ELSE @,
                !.produced = IF r.status = "ok" THEN @ \o r.written ELSE @,
                !.reads = IF r.status = "ok" THEN @ \o r.reads ELSE @,
                !.asked = Append(@, max_values),
                !.errs = IF r.status = "ok" THEN @ ELSE @ + 1,
                !.left = values_left(dec)]

Decode(max_values, overflow_checks) ==
  /\ ret.status \notin Stopped
  /\ hist.calls < MaxCalls
  /\ max_values <= Min(MaxDecode, hist.count + 1)
  /\ DecodeDone(max_values,
                decode(kind, dec, Len(buffer), max_values, overflow_checks,
                       hist.aligned))
  /\ fresh' = IF fresh.status \in Stopped THEN fresh
              ELSE decode(kind, fresh.d, Len(buffer), max_values, overflow_checks,
                          hist.aligned)
  /\ UNCHANGED kind

Next ==
  \/ \E p \in Pages(kind), aligned \in Alignments(kind),
        overflow_checks \in Builds(kind), alloc_fails \in Allocators(kind) :
       SetData(p, aligned, overflow_checks, alloc_fails)
  \/ \E p \in DictionaryPages(kind), alloc_fails \in BOOLEAN :
       SetDict(p, TRUE, alloc_fails)
  \/ \E max_values \in 0..MaxDecode, overflow_checks \in BOOLEAN :
       Decode(max_values, overflow_checks)

Spec == Init /\ [][Next]_vars

----------------------------------------------------------------------------
(* The properties *)

\* the last call was a decode that returned Ok(ret.k)
DecodeOk == ret.op = "decode" /\ ret.status = "ok"

\* the decoder was configured once, by the page hist.page
FirstPage == hist.sets = 1

\* C1: a decode that returns Ok(k) lowers values_left() by exactly k, so that
\* values_left() is the count established by the last set_data minus the sum
\* of the k returned since
MonotoneDrain ==
  DecodeOk =>
    /\ values_left(dec) = hist.left - ret.k
    /\ values_left(dec) = hist.count - hist.total

\* C2: a decode that returns Ok(k) has k <= min(max_values, values_left()
\* before the call), and the values returned since the last set_data are never
\* more than the count it established
DecodeWithinValuesLeft ==
  DecodeOk =>
    /\ ret.k <= Min(ret.max, hist.left)
    /\ hist.total <= hist.count

\* the values a suffix decoder configured by set_data returns when it is
\* drained at once
Suffixes(suffix_decoder) ==
  DeltaLengthByteArrayDecoder_decode(suffix_decoder, suffix_decoder.num_values,
                                     suffix_decoder.num_values).written

\* C3: the i-th value DeltaByteArrayDecoder produced since set_data is the
\* first prefix_lengths[i] bytes of the value produced before it, followed by
\* the i-th suffix of the inner suffix decoder
PrefixOfPreviousThenSuffix ==
  (kind.decoder = "DeltaByteArray" /\ FirstPage /\ DecodeOk) =>
    LET suffixes ==
          Suffixes(FreshDecoder(kind, None, hist.page, TRUE, FALSE).d.suffix_decoder.v)
    IN \A i \in 1..Len(hist.produced) :
         hist.produced[i] =
           (IF dec.prefix_lengths[i] = 0 THEN <<>>
            ELSE SubSeq(hist.produced[i - 1], 1, dec.prefix_lengths[i]))
           \o suffixes[i]

\* C4: the first value DeltaBitPackDecoder produced since set_data is
\* first_value, and every later one is the value before it plus the min_delta
\* and the unpacked delta read for it, across block boundaries too
RunningSumCarriesOver ==
  (kind.decoder = "DeltaBitPack" /\ FirstPage /\ DecodeOk) =>
    \A j \in 1..Len(hist.produced) :
      hist.produced[j] =
        IF j = 1 THEN dec.first_value
        ELSE hist.produced[j - 1] + hist.reads[j].min_delta + hist.reads[j].delta

\* C5: every delta DeltaBitPackDecoder read since set_data was read at the
\* bit width the block header lists for the mini-block it belongs to
DeltaReadAtListedWidth ==
  (kind.decoder = "DeltaBitPack" /\ FirstPage /\ DecodeOk) =>
    \A j \in 1..Len(hist.reads) :
      ~hist.reads[j].first => hist.reads[j].bit_width = hist.reads[j].listed

\* C6: once set_data was called on a decoder that was configured before,
\* every result of set_data and decode, and values_left(), are those of the
\* decoder constructed anew and given the same calls
ResetsLikeFresh ==
  (hist.sets >= 2 /\ ret.op \in {"set_data", "decode"}) =>
    /\ ret.status = fresh.status
    /\ ret.k = fresh.k
    /\ ret.written = fresh.written
    /\ ret.err = fresh.err
    /\ values_left(dec) = values_left(fresh.d)

\* the lengths of the byte strings xs
Lengths(xs) == [i \in 1..Len(xs) |-> Len(xs[i])]

\* the suffixes of the byte strings xs after their common prefixes
SuffixesOf(xs) ==
  [i \in 1..Len(xs) |-> SubSeq(xs[i], PrefixLengths(xs)[i] + 1, Len(xs[i]))]

\* the bytes of the page p that precede the view data
Before(p, data) == SubSeq(p.bytes, 1, Len(p.bytes) - Len(data))

\* C7: after set_data the next layer starts at the first byte after the
\* complete DELTA_BINARY_PACKED stream of the lengths: the bytes of the page
\* before DeltaLengthByteArrayDecoder's data are that stream, and the bytes
\* before the data of DeltaByteArrayDecoder's suffix decoder are the streams of
\* the prefix lengths and of the suffix lengths.  Stated for the pages whose
\* lengths the inner decoder returned as they were written.
NextLayerAfterStream ==
  (ret.op = "set_data" /\ ret.status = "ok") =>
    /\ (kind.decoder = "DeltaLength" /\ dec.lengths = Lengths(hist.page.xs)) =>
         Before(hist.page, dec.data.v) =
           DeltaBinaryPacked(hist.page.bs, hist.page.nmb, Lengths(hist.page.xs))
    /\ (/\ kind.decoder = "DeltaByteArray"
        /\ dec.prefix_lengths = PrefixLengths(hist.page.xs)
        /\ dec.suffix_decoder.v.lengths = Lengths(SuffixesOf(hist.page.xs))) =>
         Before(hist.page, dec.suffix_decoder.v.data.v) =
           DeltaBinaryPacked(hist.page.bs, hist.page.nmb,
                             PrefixLengths(hist.page.xs))
           \o DeltaBinaryPacked(hist.page.bs, hist.page.nmb,
                                Lengths(SuffixesOf(hist.page.xs)))

\* the decoder was configured once, by a whole page of n values, and then
\* asked for a values and for the n - a others
Chunked ==
  /\ FirstPage
  /\ hist.page.cut = 0
  /\ Len(hist.asked) = 2
  /\ hist.asked[1] + hist.asked[2] = hist.page.n

\* decode(buf, n) on a decoder constructed anew for the page p
Single(k, dict, p) ==
  decode(k, FreshDecoder(k, dict, p, TRUE, FALSE).d, p.n, p.n, TRUE, hist.aligned)

\* the values a call returns: those it wrote when it returned Ok, none when it
\* failed
Returned(r) == IF r.status = "ok" THEN r.written ELSE <<>>

\* C8: the values returned by decode(buf1, a) followed by decode(buf2, n - a)
\* are, concatenated, those a single decode(buf, n) returns on a decoder
\* constructed anew over the same page
ChunkingEquivalence ==
  Chunked => hist.produced = Returned(Single(kind, hist.dict, hist.page))

\* PlainDecoder was given set_data(to_byte_array(xs), n) and then one
\* decode(buffer, n)
PlainDecodedAll ==
  /\ kind.decoder = "Plain"
  /\ hist.sets >= 1
  /\ hist.page.cut = 0
  /\ ret.op = "decode"
  /\ hist.asked = <<hist.page.n>>

\* C9: after PlainDecoder.set_data(to_byte_array(xs), n), decode(buffer, n)
\* returns Ok(n), leaves values_left() = 0 and buffer[0..n) = xs
PlainRoundTrip ==
  PlainDecodedAll =>
    /\ ret.status = "ok"
    /\ ret.k = hist.page.n
    /\ values_left(dec) = 0
    /\ SubSeq(buffer, 1, hist.page.n) = hist.page.xs

\* C10: on a PLAIN page of n values with trailing bytes removed, no sequence
\* of decode calls returns n values in total, and a decode that returns an
\* error returns the not-enough-bytes error.  (That no decode aborts is left
\* out: the formula fails without it.)
PlainTruncation ==
  (kind.decoder = "Plain" /\ hist.page.cut > 0 /\ ret.op = "decode") =>
    /\ hist.total < hist.page.n
    /\ ret.status = "err" => ret.err = NotEnoughBytes

\* the header of the page p is one the format forbids
BadHeader(p) ==
  p.nmb = 0 \/ p.bs % p.nmb # 0 \/ (p.bs \div p.nmb) % 8 # 0

\* C11: DeltaBitPackDecoder.set_data returns an error, neither aborting nor
\* succeeding, on a header with num_mini_blocks = 0, with a block_size that
\* is no multiple of num_mini_blocks, or with block_size / num_mini_blocks no
\* multiple of 8
BadHeaderIsError ==
  (kind.decoder = "DeltaBitPack" /\ ret.op = "set_data" /\ BadHeader(hist.page))
    => ret.status = "err"

\* C12: after DeltaBitPackDecoder.set_data(bytes, n) values_left() is the
\* total_value_count of the header whatever n is, draining the decoder
\* produces exactly that many values (every decode returns Ok with as many
\* values as were asked for and are left), after which decode returns Ok(0)
HeaderCountDrained ==
  (kind.decoder = "DeltaBitPack" /\ hist.set = "ok") =>
    /\ hist.count = Len(hist.page.xs)
    /\ ret.op = "decode" =>
         /\ ret.status = "ok"
         /\ ret.k = Min(ret.max, hist.left)
         /\ values_left(dec) = hist.count - hist.total

\* C13: a decoder instantiated at a type it is not specialized for
\* (RleDecoder not at INT32, DeltaBitPackDecoder not at INT64, the byte-array
\* decoders not at BYTE_ARRAY) returns an error from every set_data and
\* decode, writes nothing to the buffer and keeps values_left() = 0
UnspecializedIsError ==
  ~Specialized(kind) =>
    /\ ret.op \in {"set_data", "decode"} => ret.status = "err" /\ ret.written = <<>>
    /\ buffer = [i \in 1..MaxDecode |-> DefaultValue(kind.ty)]
    /\ values_left(dec) = 0

UnspecializedIsErrorWitness ==
  /\ ~Specialized(kind)
  /\ hist.sets = 2
  /\ hist.page.n > 0
  /\ ret.op = "decode"
  /\ ret.max = 1
  /\ hist.calls = 2

\* C14: a decode(buffer, max_values) that returns Ok(k) writes buffer[0..k)
\* only: every element from index k on is what it was before the call, for
\* every decoder and every max_values <= buffer.len()
DecodeWritesPrefixOnly ==
  [][(ret'.op = "decode" /\ hist'.calls = hist.calls + 1 /\ ret'.status = "ok") =>
       /\ Len(ret'.written) = ret'.k
       /\ \A i \in 1..Len(buffer) : i > ret'.k => buffer'[i] = buffer[i]]_vars

\* a decode returned Ok(k) with k >= 1, and the element after the k written
\* is one an earlier decode stored
DecodeWritesPrefixOnlyWitness ==
  /\ DecodeOk
  /\ ret.k >= 1
  /\ ret.k < hist.total
  /\ buffer[ret.k + 1] # DefaultValue(kind.ty)

\* set_data configured the decoder, and set_dict before it if it is a
\* DictDecoder, which decode asserts
Configured ==
  /\ hist.set = "ok"
  /\ kind.decoder = "Dict" => dec.has_dictionary

\* the step is a decode(buffer, 0)
ZeroDecodeStep ==
  ret'.op = "decode" /\ hist'.calls = hist.calls + 1 /\ ret'.max = 0

\* on a decoder that set_data configured, in any state, decode(buffer, 0)
\* returns Ok(0) and changes neither the buffer nor the decoder
ZeroDecodeAfterSetData ==
  [][(hist.set = "ok" /\ ZeroDecodeStep) =>
       /\ ret'.status = "ok"
       /\ ret'.k = 0
       /\ dec' = dec
       /\ buffer' = buffer]_vars

\* C15: on a decoder that set_data configured, and set_dict too if it is a
\* DictDecoder, in any state (before any decode, partly drained, drained),
\* decode(buffer, 0) returns Ok(0) and changes neither the buffer nor the
\* decoder
ZeroDecodeIsNoOp ==
  [][(/\ Configured
      /\ ret'.op = "decode" /\ hist'.calls = hist.calls + 1
      /\ ret'.max = 0) =>
       /\ ret'.status = "ok"
       /\ ret'.k = 0
       /\ dec' = dec
       /\ buffer' = buffer]_vars

\* a decode(buffer, 0) that returned Ok(0) on a DictDecoder with data and
\* dictionary which had returned values before
ZeroDecodeIsNoOpWitness ==
  /\ Configured
  /\ kind.decoder = "Dict"
  /\ ret.op = "decode"
  /\ ret.max = 0
  /\ ret.status = "ok"
  /\ hist.total >= 1
  /\ values_left(dec) >= 1

\* C16: get_decoder returns an error for PLAIN_DICTIONARY and RLE_DICTIONARY
\* and for RLE requested with the value role VALUE, the not-yet-implemented
\* error for every encoding outside the seven it names, and for every other
\* call a decoder whose encoding() is the requested encoding in every later
\* state.  Stated in each state for the calls at the type of its decoder.
GetDecoderEncoding ==
  \A c \in {x \in GetDecoderCalls : x[1].ty = kind.ty} :
    LET r == get_decoder(c[1], c[2], c[3])
    IN CASE c[2] \in {"PLAIN_DICTIONARY", "RLE_DICTIONARY"} ->
              r.status = "err" /\ r.variant = "General"
         [] c[2] = "RLE" /\ c[3] = "VALUE" ->
              r.status = "err" /\ r.variant = "General"
         [] c[2] \notin {"PLAIN", "RLE", "DELTA_BINARY_PACKED",
                         "DELTA_LENGTH_BYTE_ARRAY", "DELTA_BYTE_ARRAY",
                         "PLAIN_DICTIONARY", "RLE_DICTIONARY"} ->
              r.status = "err" /\ r.variant = "NYI"
         [] OTHER ->
              /\ r.status = "ok"
              /\ r.k = kind => encoding(kind, dec) = c[2]

\* the decoder is one get_decoder returned for RLE and a level role, and it
\* has been given set_data and two decodes since
GetDecoderEncodingWitness ==
  /\ \E c \in GetDecoderCalls :
       /\ c[2] = "RLE" /\ c[3] = "REP_LEVEL"
       /\ get_decoder(c[1], c[2], c[3]) = OkDecoder(kind)
  /\ kind.ty = "INT32"
  /\ hist.sets >= 1
  /\ hist.calls = 2
  /\ encoding(kind, dec) = "RLE"

\* C17: after RleDecoder<Int32>.set_data on a page that starts with the
\* length prefix N, total_bytes() returns Ok(4 + N), across any decodes until
\* the next set_data: the 4 little-endian bytes of total_bytes() - 4 are the
\* first 4 bytes of the page; on PlainDecoder, DictDecoder and the three
\* delta decoders total_bytes() returns an error in every state
TotalBytesOfRle ==
  /\ (kind.decoder = "Rle" /\ kind.ty = "INT32" /\ hist.set = "ok") =>
       /\ total_bytes(kind, dec).status = "ok"
       /\ total_bytes(kind, dec).v >= 4
       /\ ToLE(total_bytes(kind, dec).v - 4, 4) = SubSeq(hist.page.bytes, 1, 4)
  /\ kind.decoder # "Rle" => total_bytes(kind, dec).status = "err"

\* DeltaBitPackDecoder<Int64> was given a page whose header has
\* total_value_count = 1 and then one decode(buffer, max_values), max_values
\* >= 1
OneValueDecoded ==
  /\ kind.decoder = "DeltaBitPack" /\ kind.ty = "INT64"
  /\ hist.set = "ok"
  /\ Len(hist.page.xs) = 1
  /\ ret.op = "decode"
  /\ Len(hist.asked) = 1
  /\ ret.max >= 1

\* C18: when the header has first_value = v and total_value_count = 1,
\* set_data followed by decode(buffer, max_values), max_values >= 1, returns
\* Ok(1) with buffer[0] = v, reads no block header (the bit reader stays
\* where set_data left it) and leaves values_left() = 0, whatever bytes
\* follow the header
FirstValueIdentity ==
  OneValueDecoded =>
    /\ ret.status = "ok"
    /\ ret.k = 1
    /\ buffer[1] = hist.page.xs[1]
    /\ values_left(dec) = 0
    /\ ret.reads[1].first /\ ~ret.reads[1].new_block
    /\ dec.bit_reader =
         DeltaBitPackDecoder_set_data(DeltaBitPackDecoder_new, hist.page.bytes,
                                      hist.page.n).d.bit_reader

\* the page has bytes after its header, the decoder had decoded another
\* page before, and max_values was 2
FirstValueIdentityWitness ==
  /\ OneValueDecoded
  /\ hist.sets = 2
  /\ hist.calls = 2
  /\ Len(hist.page.bytes) > 4
  /\ ret.max = 2
  /\ buffer[1] = -3

\* the sum of the first i elements of xs
RECURSIVE SumFirst(_, _)
SumFirst(xs, i) == IF i = 0 THEN 0 ELSE SumFirst(xs, i - 1) + xs[i]

\* C19: the i-th value DeltaLengthByteArrayDecoder produced since set_data,
\* whatever the decode calls were, is the part of the data region that starts
\* at the sum of the lengths before it and has its length, so that the values
\* lie one after the other; after a decode, offset is the sum of the lengths
\* of the values produced so far and current_idx their number
ContiguousFraming ==
  (/\ kind.decoder = "DeltaLength" /\ kind.ty = "BYTE_ARRAY"
   /\ hist.set = "ok" /\ hist.errs = 0
   /\ ret.op \in {"set_data", "decode"}) =>
    /\ dec.current_idx = Len(hist.produced)
    /\ dec.offset = SumFirst(dec.lengths, Len(hist.produced))
    /\ \A i \in 1..Len(hist.produced) :
         hist.produced[i] =
           SubSeq(dec.data.v, SumFirst(dec.lengths, i - 1) + 1,
                  SumFirst(dec.lengths, i))

\* the decoder was drained of one page, given another and has produced two
\* values or more of it, the last of them not empty
ContiguousFramingWitness ==
  /\ kind.decoder = "DeltaLength" /\ kind.ty = "BYTE_ARRAY"
  /\ hist.set = "ok" /\ hist.errs = 0
  /\ hist.sets = 2
  /\ hist.calls = 2
  /\ DecodeOk
  /\ Len(hist.asked) = 1
  /\ Len(hist.produced) >= 2
  /\ hist.produced[Len(hist.produced)] # <<>>
  /\ dec.offset >= 3

\* C20: after a DeltaByteArrayDecoder.set_data that returned Ok the outer
\* values_left() is that of the inner suffix decoder and there are as many
\* prefix lengths as suffixes; every value produced since has consumed one
\* prefix length, advancing current_idx by one, and one suffix
PrefixAndSuffixInStep ==
  (/\ kind.decoder = "DeltaByteArray" /\ kind.ty = "BYTE_ARRAY"
   /\ FirstPage /\ hist.set = "ok" /\ hist.errs = 0
   /\ ret.op \in {"set_data", "decode"}) =>
    /\ values_left(dec) = values_left(dec.suffix_decoder.v)
    /\ Len(dec.prefix_lengths) = Len(dec.suffix_decoder.v.lengths)
    /\ dec.suffix_decoder.v.current_idx = Len(hist.produced)
    /\ dec.current_idx = Len(hist.produced)

\* the assertions of decode on what set_data and set_dict store
InitAssertions ==
  {"self.data.is_some()", "self.bit_reader.is_some()",
   "self.suffix_decoder.is_some()", "self.rle_decoder.is_some()",
   "Must call set_dict() first!"}

\* the decoder is one of those the order of initialization is stated for
NeedsSetup ==
  /\ Specialized(kind)
  /\ kind.decoder \in {"Plain", "Dict", "DeltaBitPack", "DeltaLength",
                        "DeltaByteArray"}

\* C21: on PlainDecoder, DeltaBitPackDecoder<Int64> and the two byte-array
\* decoders a decode before any set_data, and on DictDecoder a decode before
\* set_dict or before set_data, stops on an assertion: it does not return Ok
\* and writes nothing to the buffer.  Once set_data (and set_dict) have
\* succeeded, no decode trips these assertions.
DecodeNeedsSetup ==
  (NeedsSetup /\ ret.op = "decode") =>
    /\ (hist.sets = 0 \/ (kind.decoder = "Dict" /\ hist.dicts = 0)) =>
         /\ ret.status = "panic"
         /\ ret.err \in InitAssertions
         /\ ret.written = <<>>
         /\ buffer = [i \in 1..MaxDecode |-> DefaultValue(kind.ty)]
    /\ Configured => ret.err \notin InitAssertions

\* DictDecoder was given set_data and no set_dict, and then a decode
DecodeNeedsSetupWitness ==
  /\ kind.decoder = "Dict"
  /\ hist.sets = 1
  /\ hist.dicts = 0
  /\ ret.op = "decode"
  /\ ret.max = 1
  /\ ret.err = "Must call set_dict() first!"

\* PlainDecoder at a type whose values have a fixed width in the page
PlainFixed ==
  kind.decoder = "Plain" /\ kind.ty \in FixedWidthTypes \cup {"INT96"}

\* the step is a decode
DecodeStep == ret'.op = "decode" /\ hist'.calls = hist.calls + 1

\* C22: for PlainDecoder at INT32, INT64, FLOAT, DOUBLE and INT96 a decode
\* that returns the not-enough-bytes error leaves start, values_left() and
\* the buffer as they were, and a decode after it with a smaller max_values
\* that fits in the bytes left returns Ok with the values at that position
FailedDecodeChangesNothing ==
  [][(PlainFixed /\ DecodeStep) =>
       /\ (ret'.status = "err" /\ ret'.err = NotEnoughBytes) =>
            /\ dec'.start = dec.start
            /\ values_left(dec') = values_left(dec)
            /\ dec' = dec
            /\ buffer' = buffer
       /\ (/\ ret.op = "decode" /\ ret.status = "err" /\ ret.err = NotEnoughBytes
           /\ ret'.max < ret.max
           /\ SizeOf(kind.ty) * Min(ret'.max, values_left(dec))
                <= Len(dec.data.v) - dec.start) =>
            /\ ret'.status = "ok"
            /\ ret'.k = Min(ret'.max, values_left(dec))
            /\ ret'.written =
                 SubSeq(hist.page.xs, dec.start \div SizeOf(kind.ty) + 1,
                        dec.start \div SizeOf(kind.ty) + ret'.k)
            /\ dec'.start = dec.start + SizeOf(kind.ty) * ret'.k]_vars

\* C23: in every state a PlainDecoder reaches by set_data and decode calls,
\* failed decodes included, the cursor start is between 0 and data.len(), for
\* the fixed-width types, INT96, FIXED_LEN_BYTE_ARRAY and BYTE_ARRAY; before
\* the first set_data there is no data and the cursor is 0.
PlainCursorInBounds ==
  (kind.decoder = "Plain" /\ kind.ty # "BOOLEAN") =>
    /\ 0 <= dec.start
    /\ IF dec.data.some THEN dec.start <= Len(dec.data.v) ELSE dec.start = 0

\* a BYTE_ARRAY decode failed after it moved the cursor past a length prefix
PlainCursorInBoundsWitness ==
  /\ kind.decoder = "Plain" /\ kind.ty = "BYTE_ARRAY"
  /\ ret.op = "decode" /\ ret.status = "err" /\ ret.err = NotEnoughBytes
  /\ dec.start = 4 /\ dec.start < Len(dec.data.v)
  /\ hist.page.cut = 1

DeltaLengthByteArrays == kind.decoder = "DeltaLength" /\ kind.ty = "BYTE_ARRAY"

\* the next value of d is no range of its data region
NextOutside(d) ==
  /\ d.data.some
  /\ d.current_idx < Len(d.lengths)
  /\ \/ d.lengths[d.current_idx + 1] < 0
     \/ d.offset + d.lengths[d.current_idx + 1] > Len(d.data.v)

\* every value of an Ok decode has its decoded length, which is not negative,
\* and the last of them ends inside the data region
ReturnedRangesInside ==
  (DeltaLengthByteArrays /\ DecodeOk) =>
    /\ dec.offset <= Len(dec.data.v)
    /\ \A i \in 1..ret.k :
         /\ dec.lengths[dec.current_idx - ret.k + i] >= 0
         /\ Len(ret.written[i]) = dec.lengths[dec.current_idx - ret.k + i]

\* after every call that returned
IndexPlusLeftIsLengths ==
  (DeltaLengthByteArrays /\ ret.status # "panic") =>
    dec.current_idx + values_left(dec) = Len(dec.lengths)

\* a decode that stopped at a value outside the data region returned Err
OutsideIsError ==
  (DeltaLengthByteArrays /\ ret.op = "decode" /\ ret.status # "ok"
   /\ NextOutside(dec)) => ret.status = "err"

\* C24: DeltaLengthByteArrayDecoder hands out no range outside its data
\* region: every value a decode returns lies inside it, in every state
\* current_idx + values_left() is lengths.len(), and a decode that comes to a
\* length that is negative or reaches past the end of the data region returns
\* an error.
RangesInsideDataRegion ==
  /\ ReturnedRangesInside
  /\ IndexPlusLeftIsLengths
  /\ OutsideIsError

============================================================================
